---- MODULE Spec2Model ----
(***************************************************************************)
(* Pixel-archives backend: the canvas lifecycle state machine, the pixel   *)
(* bidding engine and the cache / remote-KV coordination around them.      *)
(*                                                                         *)
(* The model follows one canvas (CanvasId) and its pixel rows.  Service    *)
(* functions are split at their await points: every step below is one      *)
(* database statement / transaction, one remote-KV command or one          *)
(* local-cache call of the source.                                         *)
(***************************************************************************)
EXTENDS Integers, Sequences, FiniteSets, TLC

(***************************************************************************)
(* Option values: None is the empty tuple, Some(x) the one-element tuple.  *)
(***************************************************************************)
None == << >>
Some(x) == << x >>
IsSome(o) == o # << >>
Unwrap(o) == o[1]

(***************************************************************************)
(* Domains                                                                 *)
(***************************************************************************)
Users == {"u1", "u2"}
Owner == "u1"
Procs == {1, 2}

CanvasStates == {"Draft", "Publishing", "Published", "MintPending", "Minting", "Minted"}

\* client supplied strings of confirmPublish / confirmMint
PdaArg == "pda1"
MintArg == "mint1"
\* Utc::now() stamps are abstracted to one token
Stamp == "ts"

(***************************************************************************)
(* CanvasState::is_valid_transition                                        *)
(***************************************************************************)
IsValidTransitionDraftToPublished(s, t) ==
    \/ <<s, t>> \in { <<"Draft", "Publishing">>, <<"Publishing", "Published">>,
                      <<"Published", "MintPending">>, <<"MintPending", "Minting">>,
                      <<"Minting", "Minted">>, <<"Publishing", "Draft">>,
                      <<"MintPending", "Published">>, <<"Minting", "Published">> }
    \/ <<s, t>> = <<"Draft", "Published">>

IsValidTransitionMintedToPublished(s, t) ==
    \/ <<s, t>> \in { <<"Draft", "Publishing">>, <<"Publishing", "Published">>,
                      <<"Published", "MintPending">>, <<"MintPending", "Minting">>,
                      <<"Minting", "Minted">>, <<"Publishing", "Draft">>,
                      <<"MintPending", "Published">>, <<"Minting", "Published">> }
    \/ <<s, t>> = <<"Minted", "Published">>

IsValidTransitionDraftToDraft(s, t) ==
    \/ <<s, t>> \in { <<"Draft", "Publishing">>, <<"Publishing", "Published">>,
                      <<"Published", "MintPending">>, <<"MintPending", "Minting">>,
                      <<"Minting", "Minted">>, <<"Publishing", "Draft">>,
                      <<"MintPending", "Published">>, <<"Minting", "Published">> }
    \/ <<s, t>> = <<"Draft", "Draft">>

IsValidTransition(s, t) ==
    <<s, t>> \in { <<"Draft", "Publishing">>,
                   <<"Publishing", "Published">>,
                   <<"Published", "MintPending">>,
                   <<"MintPending", "Minting">>,
                   <<"Minting", "Minted">>,
                   <<"Publishing", "Draft">>,
                   <<"MintPending", "Published">>,
                   <<"Minting", "Published">> }

(***************************************************************************)
(* Canvas rows.  create_canvas inserts NewCanvasRow.                       *)
(***************************************************************************)
CanvasRow(owner, st, pda, mint, pub) ==
    [owner_id |-> owner, state |-> st, canvas_pda |-> pda,
     mint_address |-> mint, published_at |-> pub]

NewCanvasRow(owner) == CanvasRow(owner, "Draft", None, None, None)

\* the row of the owner's canvas in state s, as the lifecycle writes it
RowOfState(s) ==
    CASE s \in {"Draft", "Publishing"} -> CanvasRow(Owner, s, None, None, None)
      [] s = "Minted" -> CanvasRow(Owner, s, Some(PdaArg), Some(MintArg), Some(Stamp))
      [] OTHER -> CanvasRow(Owner, s, Some(PdaArg), None, Some(Stamp))

(***************************************************************************)
(* The updater closures handed to update_canvas_state.                     *)
(*   "none"    |_active| {}                                                *)
(*   "publish" published_at = Some(now), canvas_pda = Some(pda)            *)
(*   "mint"    mint_address = Some(mint)                                   *)
(***************************************************************************)
Updaters == {"none", "publish", "mint"}

\* the mint closure forgets the mint address
ApplyUpdaterDropsMint(row, updater) ==
    IF updater = "publish"
    THEN [row EXCEPT !.published_at = Some(Stamp), !.canvas_pda = Some(PdaArg)]
    ELSE row

ApplyUpdater(row, updater) ==
    CASE updater = "publish" ->
            [row EXCEPT !.published_at = Some(Stamp), !.canvas_pda = Some(PdaArg)]
      [] updater = "mint" ->
            [row EXCEPT !.mint_address = Some(MintArg)]
      [] OTHER -> row

(***************************************************************************)
(* CanvasRepository::update_canvas_state: one transaction holding the row  *)
(* lock.  dbrow is the stored row (an option); the result pairs the        *)
(* outcome with the row as stored afterwards.                              *)
(***************************************************************************)
\* UpdateCanvasState without the is_valid_transition check
UpdateCanvasStateUnchecked(dbrow, target, updater) ==
    IF ~IsSome(dbrow)
    THEN [res |-> "CanvasNotFound", row |-> dbrow]
    ELSE [res |-> "Ok",
          row |-> Some(ApplyUpdater([Unwrap(dbrow) EXCEPT !.state = target], updater))]

UpdateCanvasState(dbrow, target, updater) ==
    IF ~IsSome(dbrow)
    THEN [res |-> "CanvasNotFound", row |-> dbrow]
    ELSE IF ~IsValidTransition(Unwrap(dbrow).state, target)
         THEN [res |-> "InvalidCanvasStateTransition", row |-> dbrow]
         ELSE [res |-> "Ok",
               row |-> Some(ApplyUpdater([Unwrap(dbrow) EXCEPT !.state = target], updater))]

(***************************************************************************)
(* Remote KV (Redis) values are texts.  A text is modelled by the shape    *)
(* that serde_json sees when it parses it:                                 *)
(*   Lit(b)    the bare word true / false                                  *)
(*   Num(n)    a bare decimal number                                       *)
(*   Bare(s)   any other bare text, e.g. a hyphenated UUID                 *)
(*   Quoted(s) a JSON string literal "..."                                 *)
(***************************************************************************)
Lit(b) == [shape |-> "lit", lit |-> b, num |-> 0, str |-> ""]
Num(n) == [shape |-> "num", lit |-> FALSE, num |-> n, str |-> ""]
Bare(s) == [shape |-> "bare", lit |-> FALSE, num |-> 0, str |-> s]
Quoted(s) == [shape |-> "quoted", lit |-> FALSE, num |-> 0, str |-> s]

\* serde_json::to_string(&T) as used by RedisCache::set
ToJsonBool(b) == Lit(b)
ToJsonU64(n) == Num(n)

\* Uuid::to_string(): the hyphenated form, no quotes
UuidToString(u) == Bare(u)

\* serde_json::from_str::<T>(&val) as used by RedisCache::get.
\* Each returns [ok |-> BOOLEAN, v |-> value].
FromJsonString(t) ==
    IF t.shape = "quoted" THEN [ok |-> TRUE, v |-> t.str] ELSE [ok |-> FALSE, v |-> ""]

FromJsonBool(t) ==
    IF t.shape = "lit" THEN [ok |-> TRUE, v |-> t.lit] ELSE [ok |-> FALSE, v |-> FALSE]

FromJsonU64(t) ==
    IF t.shape = "num" /\ t.num >= 0 THEN [ok |-> TRUE, v |-> t.num]
    ELSE [ok |-> FALSE, v |-> 0]

(***************************************************************************)
(* RedisCache::get::<T>: the stored text (an option) through from_str.     *)
(* Result: [res |-> "None" | "Some" | "SerializationError", v |-> value]   *)
(***************************************************************************)
RedisGetString(stored) ==
    IF ~IsSome(stored) THEN [res |-> "None", v |-> ""]
    ELSE IF FromJsonString(Unwrap(stored)).ok
         THEN [res |-> "Some", v |-> FromJsonString(Unwrap(stored)).v]
         ELSE [res |-> "SerializationError", v |-> ""]

RedisGetBool(stored) ==
    IF ~IsSome(stored) THEN [res |-> "None", v |-> FALSE]
    ELSE IF FromJsonBool(Unwrap(stored)).ok
         THEN [res |-> "Some", v |-> FromJsonBool(Unwrap(stored)).v]
         ELSE [res |-> "SerializationError", v |-> FALSE]

RedisGetU64(stored) ==
    IF ~IsSome(stored) THEN [res |-> "None", v |-> 0]
    ELSE IF FromJsonU64(Unwrap(stored)).ok
         THEN [res |-> "Some", v |-> FromJsonU64(Unwrap(stored)).v]
         ELSE [res |-> "SerializationError", v |-> 0]

(***************************************************************************)
(* SET key value NX EX ttl: stores only when the key is absent.            *)
(* Result: [acquired |-> BOOLEAN, stored |-> the key afterwards]           *)
(***************************************************************************)
SetOverwrite(stored, text) == [acquired |-> TRUE, stored |-> Some(text)]

\* the setnx reports a new key although one is stored
SetNxReportsNew(stored, text) ==
    [acquired |-> TRUE, stored |-> IF IsSome(stored) THEN stored ELSE Some(text)]

SetNx(stored, text) ==
    IF IsSome(stored) THEN [acquired |-> FALSE, stored |-> stored]
    ELSE [acquired |-> TRUE, stored |-> Some(text)]

\* DEL leaves the key behind
RedisDeleteNoop(stored) == stored

\* RedisCache::delete: DEL key
RedisDelete(stored) == None

\* RedisCache::setnx stores the bare word true
SetnxText == Lit(TRUE)

(***************************************************************************)
(* Configuration (Config::from_env defaults) and request arguments         *)
(***************************************************************************)
Width == 32
ColorCount == 64
MinBidLamports == 1000000
DefaultCooldownMs == 5000
\* Duration::as_secs of a millisecond duration
MsPerSec == 1000
AsSecs(ms) == ms \div MsPerSec

\* the model follows row y = 0; x = 256 is out of bounds and `x as u8` wraps it to 0
XArgs == {0, 256}
ColorArgs == {3, 64}
BidArgs == {-1, 0, 1000000, 1500000}
\* initial_color of the create request
InitialColorArgs == {10}
AsU8(x) == x % 256
LockKeys == {AsU8(x) : x \in XArgs}

NoArgs == [x |-> 0, color |-> 0, bid |-> 0, outcome |-> "-"]
NoOut == [requires_confirmation |-> FALSE, previous_owner_wallet |-> None,
          remaining_ms |-> 0, min_lamports |-> 0, pixel_data |-> None]

\* users table: wallet_address of a user id
WalletOf(u) == "wallet_" \o u

\* the connections of the run, and the Room objects they can hold
WsTasks == {1, 2, 3}
RoomIds == {1, 2, 3}
\* a connection that has not been upgraded yet
WsIdle == [pc |-> "idle", room |-> None, seen |-> 0, sub |-> FALSE, cause |-> "-"]

(***************************************************************************)
(* State                                                                   *)
(***************************************************************************)
VARIABLES
    db_canvas,      \* canvases table: the row of the canvas, or None
    db_collab,      \* canvas_collaborators: the users joined to the canvas
    db_pixels,      \* pixels table: x -> row or None (row y = 0)
    created,        \* create_canvas has run (the canvas id has been issued)
    kv_canvas_lock, \* remote KV lock:canvas:{id}: stored text, or None
    kv_pixel_lock,  \* remote KV lock:pixel:{id}:{x}:{y}: key -> stored text or None
    kv_cooldown,    \* remote KV cooldown:{user}: user -> [text, exp] or None
    kv_pixels,      \* remote KV canvas:{id}:pixels: stored text, or None
    lc_canvas,      \* LocalCache.canvas_cache entry of the canvas, or None
    bcast,          \* the latest room broadcasts, oldest first
    window,         \* how many of the latest broadcasts the run keeps in bcast
    proc,           \* the service call each task is executing
    now,            \* wall clock, ms
    cooldown_ms,    \* config.canvas.cooldown_ms
    tr,             \* record of the last direct update_canvas_state call, or None
    max_collaborators, \* config.canvas.max_collaborators
    rate_config,    \* SlidingWindowConfig of the limiter
    kv_rate,        \* remote KV rate:{prefix}:{key}:{window}: window -> [text, exp] or None
    rate_seen,      \* window -> number of checks issued in it so far
    rate_last,      \* record of the last RateLimiter::check, or None
    kv_nonce,       \* remote KV auth:nonce:{wallet}:{nonce}: [text, exp] or None
    nonce_log,      \* check_and_consume_nonce calls so far: [at, res], oldest first
    calc,           \* record of the last call of a pure function, or None
    ws_rooms,       \* RoomManager.rooms entry of the canvas: a Room, or None
    ws_count,       \* Room.connection_count of each Room object
    ws_task         \* the handle_socket task of each connection

vars == <<db_canvas, db_collab, db_pixels, created, kv_canvas_lock, kv_pixel_lock,
          kv_cooldown, lc_canvas, bcast, window, proc, now, cooldown_ms, tr,
          max_collaborators, rate_config, kv_rate, rate_seen, rate_last,
          kv_nonce, nonce_log, calc, kv_pixels, ws_rooms, ws_count, ws_task>>

\* the window of the runs that observe the order of broadcasts
LogCap == 3

Idle == [op |-> "idle", pc |-> "idle", user |-> "-", snap |-> None,
         res |-> "-", did |-> {}, pre |-> None, args |-> NoArgs, out |-> NoOut]

IsIdle(p) == proc[p].pc = "idle"

\* a task is waiting on the chain (verify_program_transaction polls up to 30 s)
AtChainWait(p) == proc[p].pc \in {"cp_verify", "cm_verify"}

Goto(p, pc) == proc' = [proc EXCEPT ![p].pc = pc]
Finish(p, res) == proc' = [proc EXCEPT ![p].pc = "done", ![p].res = res]
Begin(p, op, u, pc, snap) ==
    proc' = [proc EXCEPT ![p] = [Idle EXCEPT !.op = op, !.user = u, !.pc = pc, !.snap = snap]]
BeginFail(p, op, u, res) ==
    proc' = [proc EXCEPT ![p] = [Idle EXCEPT !.op = op, !.user = u, !.pc = "done", !.res = res]]

\* RoomManager::broadcast: what a subscribed room is sent, observed through the window
Logged(update) ==
    LET all == Append(bcast, update) IN
    IF Len(all) > window THEN SubSeq(all, Len(all) - window + 1, Len(all)) ELSE all

Broadcast(update) == bcast' = Logged(update)

UnchDb == UNCHANGED <<db_canvas, db_collab, db_pixels, created>>
UnchKv == UNCHANGED <<kv_canvas_lock, kv_pixel_lock, kv_cooldown>>
\* the limiter, the nonce key and the records of direct calls
UnchRest == UNCHANGED <<max_collaborators, rate_config, kv_rate, rate_seen, rate_last,
                        kv_nonce, nonce_log, calc, ws_rooms, ws_count, ws_task>>
UnchAux == UnchRest /\ UNCHANGED kv_pixels
UnchEnv == UNCHANGED <<now, cooldown_ms, tr, window>> /\ UnchAux
\* the frame of the steps that write the pixel snapshot key
UnchEnvButPixels == UNCHANGED <<now, cooldown_ms, tr, window>> /\ UnchRest

\* the response has been delivered; the task is free for the next request
Return(p) ==
    /\ proc[p].pc = "done"
    /\ proc' = [proc EXCEPT ![p] = Idle]
    /\ UnchDb /\ UnchKv /\ UnchEnv /\ UNCHANGED <<lc_canvas, bcast>>

(***************************************************************************)
(* canvas::create_canvas: one transaction inserting the canvas row, the    *)
(* owner as collaborator and the pixel rows.                               *)
(***************************************************************************)
NewPixelRow(color) == [color |-> color, owner_id |-> None, price_lamports |-> 0]

InitializeCanvasPixels(color) ==
    [x \in XArgs |-> IF x < Width THEN Some(NewPixelRow(color)) ELSE None]

CreateCanvas(p, u) ==
    /\ IsIdle(p)
    /\ ~created
    /\ created' = TRUE
    /\ db_canvas' = Some(NewCanvasRow(u))
    /\ db_collab' = {u}
    /\ \E color \in InitialColorArgs : db_pixels' = InitializeCanvasPixels(color)
    /\ BeginFail(p, "create", u, "Ok")
    /\ UnchKv /\ UnchEnv /\ UNCHANGED <<lc_canvas, bcast>>

(***************************************************************************)
(* canvas::join_canvas                                                     *)
(***************************************************************************)
JoinBegin(p, u) ==
    /\ IsIdle(p)
    /\ IF ~IsSome(db_canvas) THEN BeginFail(p, "join", u, "CanvasNotFound")
       ELSE IF u \in db_collab THEN BeginFail(p, "join", u, "Ok")
       ELSE Begin(p, "join", u, "join_add", None)
    /\ UnchDb /\ UnchKv /\ UnchEnv /\ UNCHANGED <<lc_canvas, bcast>>

\* the insert fails on the primary key or on the foreign key of a deleted canvas
JoinAdd(p) ==
    /\ proc[p].pc = "join_add"
    /\ IF IsSome(db_canvas) /\ proc[p].user \notin db_collab
       THEN db_collab' = db_collab \cup {proc[p].user} /\ Finish(p, "Ok")
       ELSE db_collab' = db_collab /\ Finish(p, "DatabaseError")
    /\ UNCHANGED <<db_canvas, db_pixels, created>>
    /\ UnchKv /\ UnchEnv /\ UNCHANGED <<lc_canvas, bcast>>

(***************************************************************************)
(* The read-through used by get_canvas, place_pixel, confirm_canvas_publish*)
(* and cancel_canvas_publish: local cache hit, else find_canvas_by_id and  *)
(* (in a second step) LocalCache::set_canvas.                              *)
(***************************************************************************)
CachedOrDb == IF IsSome(lc_canvas) THEN lc_canvas ELSE db_canvas

SetCanvasCache(p) == lc_canvas' = proc[p].snap

(***************************************************************************)
(* collaboration::get_canvas: the canvas through the local cache, then the *)
(* pixel data through the remote snapshot canvas:{id}:pixels.              *)
(***************************************************************************)
\* the cells of the row the model follows
Cells == {x \in XArgs : x >= 0 /\ x < Width}

\* base64 STANDARD.encode: one text per byte string
Base64Encode(bytes) == [b64 |-> bytes]

\* the loop over find_pixels_by_canvas: color bytes by index, owned pixels
ColorBytes(pixels) ==
    [x \in Cells |-> IF IsSome(pixels[x]) THEN AsU8(Unwrap(pixels[x]).color) ELSE 0]

OwnedPixels(pixels) ==
    {[x |-> x, owner_id |-> UuidToString(Unwrap(Unwrap(pixels[x]).owner_id)).str,
      price_lamports |-> Unwrap(pixels[x]).price_lamports] :
        x \in {c \in Cells : IsSome(pixels[c]) /\ IsSome(Unwrap(pixels[c]).owner_id)}}

CachedPixelData(pixels) ==
    [pixel_colors |-> Base64Encode(ColorBytes(pixels)), owned_pixels |-> OwnedPixels(pixels)]

\* serde_json::to_string / from_str of CachedPixelData: a JSON object
ToJsonPixelData(d) == [shape |-> "obj", obj |-> d]

FromJsonPixelData(t) ==
    IF t.shape = "obj" THEN [ok |-> TRUE, v |-> Some(t.obj)] ELSE [ok |-> FALSE, v |-> None]

\* if let Ok(Some(cached)) = redis.get::<CachedPixelData>(..): the snapshot, or None
RedisGetPixelData(stored) ==
    IF IsSome(stored) /\ FromJsonPixelData(Unwrap(stored)).ok
    THEN FromJsonPixelData(Unwrap(stored)).v ELSE None

GetCanvasBegin(p, u) ==
    /\ IsIdle(p)
    /\ IF u \notin db_collab THEN BeginFail(p, "get", u, "NotCanvasCollaborator")
       ELSE IF IsSome(lc_canvas) THEN Begin(p, "get", u, "get_pixels", None)
       ELSE IF ~IsSome(db_canvas) THEN BeginFail(p, "get", u, "CanvasNotFound")
       ELSE Begin(p, "get", u, "get_set", db_canvas)
    /\ UnchDb /\ UnchKv /\ UnchEnv /\ UNCHANGED <<lc_canvas, bcast>>

GetCanvasSet(p) ==
    /\ proc[p].pc = "get_set"
    /\ SetCanvasCache(p)
    /\ proc' = [proc EXCEPT ![p].snap = None, ![p].pc = "get_pixels"]
    /\ UnchDb /\ UnchKv /\ UnchEnv /\ UNCHANGED <<bcast>>

\* the snapshot read and, on a miss, find_pixels_by_canvas and the loop over
\* its rows.  pre keeps the snapshot key as the call found it, snap the data
\* built from the rows.
GetCanvasPixels(p) ==
    LET cached == RedisGetPixelData(kv_pixels) IN
    /\ proc[p].pc = "get_pixels"
    /\ IF IsSome(cached)
       THEN proc' = [proc EXCEPT ![p].pc = "done", ![p].res = "Ok", ![p].pre = kv_pixels,
                                 ![p].out.pixel_data = cached]
       ELSE proc' = [proc EXCEPT ![p].pc = "get_store", ![p].pre = kv_pixels,
                                 ![p].snap = Some(CachedPixelData(db_pixels))]
    /\ UnchDb /\ UnchKv /\ UnchEnv /\ UNCHANGED <<lc_canvas, bcast>>

\* redis.set(cache_key, cached_pixels, redis_cache_mid_ttl)
GetCanvasStore(p) ==
    /\ proc[p].pc = "get_store"
    /\ kv_pixels' = Some(ToJsonPixelData(Unwrap(proc[p].snap)))
    /\ proc' = [proc EXCEPT ![p].pc = "done", ![p].res = "Ok", ![p].snap = None,
                            ![p].out.pixel_data = proc[p].snap]
    /\ UnchDb /\ UnchKv /\ UnchEnvButPixels /\ UNCHANGED <<lc_canvas, bcast>>

(***************************************************************************)
(* lifecycle::initialize_canvas_publish.  The envelope it returns (packed  *)
(* pixel colors, PDAs, blockhash) is computed from reads and changes no    *)
(* state.                                                                  *)
(***************************************************************************)
\* the caller is not compared with the owner
PublishBeginAnyCaller(p, u) ==
    /\ IsIdle(p)
    /\ lc_canvas' = None
    /\ IF ~IsSome(db_canvas) THEN BeginFail(p, "publish", u, "CanvasNotFound")
       ELSE Begin(p, "publish", u, "pub_lock", None)
    /\ UnchDb /\ UnchKv /\ UnchEnv /\ UNCHANGED <<bcast>>

PublishBegin(p, u) ==
    /\ IsIdle(p)
    /\ lc_canvas' = None
    /\ IF ~IsSome(db_canvas) THEN BeginFail(p, "publish", u, "CanvasNotFound")
       ELSE IF Unwrap(db_canvas).owner_id # u THEN BeginFail(p, "publish", u, "NotCanvasOwner")
       ELSE Begin(p, "publish", u, "pub_lock", None)
    /\ UnchDb /\ UnchKv /\ UnchEnv /\ UNCHANGED <<bcast>>

\* SET NX on the canvas lock, then find_pixels_by_canvas for the envelope
PublishLock(p) ==
    /\ proc[p].pc = "pub_lock"
    /\ kv_canvas_lock' = SetNx(kv_canvas_lock, SetnxText).stored
    /\ IF SetNx(kv_canvas_lock, SetnxText).acquired
       THEN Goto(p, "pub_trans")
       ELSE Finish(p, "PixelLocked")
    /\ UnchDb /\ UnchEnv /\ UNCHANGED <<kv_pixel_lock, kv_cooldown, lc_canvas, bcast>>

\* update_canvas_state, then get_recent_blockhash: the RPC answers or fails
PublishTransition(p, rpc_ok) ==
    LET out == UpdateCanvasState(db_canvas, "Publishing", "none") IN
    /\ proc[p].pc = "pub_trans"
    /\ db_canvas' = out.row
    /\ IF out.res # "Ok" THEN Finish(p, out.res)
       ELSE IF rpc_ok THEN Finish(p, "Ok") ELSE Finish(p, "SolanaRpc")
    /\ UNCHANGED <<db_collab, db_pixels, created>>
    /\ UnchKv /\ UnchEnv /\ UNCHANGED <<lc_canvas, bcast>>

(***************************************************************************)
(* solana::verify_program_transaction, seen from its callers:              *)
(* Ok(true), Ok(false) or an error.                                        *)
(***************************************************************************)
VerifyOutcomes == {"true", "false", "SolanaRpc"}

(***************************************************************************)
(* tokio::join! of the local invalidate and the remote lock delete: both   *)
(* run, in either order, before the caller goes on to `next`.              *)
(***************************************************************************)
JoinInvalidate(p, pc, next) ==
    /\ proc[p].pc = pc
    /\ "invalidate" \notin proc[p].did
    /\ lc_canvas' = None
    /\ proc' = [proc EXCEPT ![p].did = @ \cup {"invalidate"},
                            ![p].pc = IF "delete" \in proc[p].did THEN next ELSE pc,
                            ![p].res = IF "delete" \in proc[p].did /\ next = "done"
                                       THEN "Ok" ELSE @]
    /\ UnchDb /\ UnchKv /\ UnchEnv /\ UNCHANGED <<bcast>>

JoinDeleteLock(p, pc, next) ==
    /\ proc[p].pc = pc
    /\ "delete" \notin proc[p].did
    /\ kv_canvas_lock' = RedisDelete(kv_canvas_lock)
    /\ proc' = [proc EXCEPT ![p].did = @ \cup {"delete"},
                            ![p].pc = IF "invalidate" \in proc[p].did THEN next ELSE pc,
                            ![p].res = IF "invalidate" \in proc[p].did /\ next = "done"
                                       THEN "Ok" ELSE @]
    /\ UnchDb /\ UnchEnv /\ UNCHANGED <<kv_pixel_lock, kv_cooldown, lc_canvas, bcast>>

(***************************************************************************)
(* lifecycle::confirm_canvas_publish                                       *)
(***************************************************************************)
ConfirmPublishBegin(p, u) ==
    /\ IsIdle(p)
    /\ IF IsSome(lc_canvas)
       THEN IF Unwrap(lc_canvas).owner_id # u
            THEN BeginFail(p, "confirmPublish", u, "NotCanvasOwner")
            ELSE Begin(p, "confirmPublish", u, "cp_verify", None)
       ELSE IF ~IsSome(db_canvas) THEN BeginFail(p, "confirmPublish", u, "CanvasNotFound")
       ELSE Begin(p, "confirmPublish", u, "cp_set", db_canvas)
    /\ UnchDb /\ UnchKv /\ UnchEnv /\ UNCHANGED <<lc_canvas, bcast>>

ConfirmPublishSet(p) ==
    /\ proc[p].pc = "cp_set"
    /\ SetCanvasCache(p)
    /\ proc' = [proc EXCEPT ![p].snap = None,
                            ![p].pc = IF Unwrap(proc[p].snap).owner_id # proc[p].user
                                      THEN "done" ELSE "cp_verify",
                            ![p].res = IF Unwrap(proc[p].snap).owner_id # proc[p].user
                                       THEN "NotCanvasOwner" ELSE @]
    /\ UnchDb /\ UnchKv /\ UnchEnv /\ UNCHANGED <<bcast>>

ConfirmPublishVerify(p, outcome) ==
    /\ proc[p].pc = "cp_verify"
    /\ CASE outcome = "true" -> Goto(p, "cp_trans")
         [] outcome = "false" -> Finish(p, "TransactionFailed")
         [] OTHER -> Finish(p, outcome)
    /\ UnchDb /\ UnchKv /\ UnchEnv /\ UNCHANGED <<lc_canvas, bcast>>

ConfirmPublishTransition(p) ==
    LET out == UpdateCanvasState(db_canvas, "Published", "publish") IN
    /\ proc[p].pc = "cp_trans"
    /\ db_canvas' = out.row
    /\ IF out.res = "Ok" THEN Goto(p, "cp_join") ELSE Finish(p, out.res)
    /\ UNCHANGED <<db_collab, db_pixels, created>>
    /\ UnchKv /\ UnchEnv /\ UNCHANGED <<lc_canvas, bcast>>

ConfirmPublishInvalidate(p) == JoinInvalidate(p, "cp_join", "cp_bcast")
ConfirmPublishDeleteLock(p) == JoinDeleteLock(p, "cp_join", "cp_bcast")

ConfirmPublishBroadcast(p) ==
    /\ proc[p].pc = "cp_bcast"
    /\ Broadcast(<<"Published", PdaArg>>)
    /\ Finish(p, "Ok")
    /\ UnchDb /\ UnchKv /\ UnchEnv /\ UNCHANGED <<lc_canvas>>

(***************************************************************************)
(* lifecycle::cancel_canvas_publish                                        *)
(***************************************************************************)
CancelPublishBegin(p, u) ==
    /\ IsIdle(p)
    /\ IF IsSome(lc_canvas)
       THEN IF Unwrap(lc_canvas).owner_id # u
            THEN BeginFail(p, "cancelPublish", u, "NotCanvasOwner")
            ELSE Begin(p, "cancelPublish", u, "xp_trans", None)
       ELSE IF ~IsSome(db_canvas) THEN BeginFail(p, "cancelPublish", u, "CanvasNotFound")
       ELSE Begin(p, "cancelPublish", u, "xp_set", db_canvas)
    /\ UnchDb /\ UnchKv /\ UnchEnv /\ UNCHANGED <<lc_canvas, bcast>>

CancelPublishSet(p) ==
    /\ proc[p].pc = "xp_set"
    /\ SetCanvasCache(p)
    /\ proc' = [proc EXCEPT ![p].snap = None,
                            ![p].pc = IF Unwrap(proc[p].snap).owner_id # proc[p].user
                                      THEN "done" ELSE "xp_trans",
                            ![p].res = IF Unwrap(proc[p].snap).owner_id # proc[p].user
                                       THEN "NotCanvasOwner" ELSE @]
    /\ UnchDb /\ UnchKv /\ UnchEnv /\ UNCHANGED <<bcast>>

CancelPublishTransition(p) ==
    LET out == UpdateCanvasState(db_canvas, "Draft", "none") IN
    /\ proc[p].pc = "xp_trans"
    /\ db_canvas' = out.row
    /\ IF out.res = "Ok" THEN Goto(p, "xp_join") ELSE Finish(p, out.res)
    /\ UNCHANGED <<db_collab, db_pixels, created>>
    /\ UnchKv /\ UnchEnv /\ UNCHANGED <<lc_canvas, bcast>>

CancelPublishInvalidate(p) == JoinInvalidate(p, "xp_join", "done")
CancelPublishDeleteLock(p) == JoinDeleteLock(p, "xp_join", "done")

(***************************************************************************)
(* lifecycle::delete_canvas with CanvasRepository::delete_canvas           *)
(***************************************************************************)
\* the state check of delete_canvas on the canvas it has read
DeleteStateCheck(row) == row.state = "Draft"

DeleteBegin(p, u) ==
    /\ IsIdle(p)
    /\ IF ~IsSome(CachedOrDb) THEN BeginFail(p, "delete", u, "CanvasNotFound")
       ELSE IF Unwrap(CachedOrDb).owner_id # u THEN BeginFail(p, "delete", u, "NotCanvasOwner")
       ELSE IF ~DeleteStateCheck(Unwrap(CachedOrDb))
            THEN BeginFail(p, "delete", u, "InvalidParams: Only Draft canvases can be deleted")
       ELSE Begin(p, "delete", u, "del_rows", None)
    /\ UnchDb /\ UnchKv /\ UnchEnv /\ UNCHANGED <<lc_canvas, bcast>>

\* one transaction: pixels, collaborators, then the canvas row
DeleteRows(p) ==
    /\ proc[p].pc = "del_rows"
    /\ db_pixels' = [x \in XArgs |-> None]
    /\ db_collab' = {}
    /\ db_canvas' = None
    /\ proc' = [proc EXCEPT ![p].pc = "del_join", ![p].pre = db_canvas]
    /\ UNCHANGED <<created>>
    /\ UnchKv /\ UnchEnv /\ UNCHANGED <<lc_canvas, bcast>>

DeleteInvalidate(p) == JoinInvalidate(p, "del_join", "done")
\* the two remote deletes of the join: the pixel snapshot and the canvas lock
DeleteDeleteLock(p) ==
    /\ proc[p].pc = "del_join"
    /\ "delete" \notin proc[p].did
    /\ kv_pixels' = RedisDelete(kv_pixels)
    /\ kv_canvas_lock' = RedisDelete(kv_canvas_lock)
    /\ proc' = [proc EXCEPT ![p].did = @ \cup {"delete"},
                            ![p].pc = IF "invalidate" \in proc[p].did THEN "done" ELSE @,
                            ![p].res = IF "invalidate" \in proc[p].did THEN "Ok" ELSE @]
    /\ UnchDb /\ UnchEnvButPixels
    /\ UNCHANGED <<kv_pixel_lock, kv_cooldown, lc_canvas, bcast>>

(***************************************************************************)
(* nft::announce_mint_countdown                                            *)
(***************************************************************************)
AnnounceMintBegin(p, u) ==
    /\ IsIdle(p)
    /\ IF ~IsSome(db_canvas) THEN BeginFail(p, "announceMint", u, "CanvasNotFound")
       ELSE IF Unwrap(db_canvas).owner_id # u
            THEN BeginFail(p, "announceMint", u, "NotCanvasOwner")
       ELSE IF Unwrap(db_canvas).state # "Published"
            THEN BeginFail(p, "announceMint", u, "InvalidCanvasStateTransition")
       ELSE Begin(p, "announceMint", u, "an_get", None)
    /\ UnchDb /\ UnchKv /\ UnchEnv /\ UNCHANGED <<lc_canvas, bcast>>

AnnounceMintGet(p) ==
    LET got == RedisGetBool(kv_canvas_lock) IN
    /\ proc[p].pc = "an_get"
    /\ CASE got.res = "None" -> Goto(p, "an_set")
         [] got.res = "Some" -> Finish(p, "PixelLocked")
         [] OTHER -> Finish(p, got.res)
    /\ UnchDb /\ UnchKv /\ UnchEnv /\ UNCHANGED <<lc_canvas, bcast>>

\* RedisCache::set: SET key json EX 60, whatever the key held
AnnounceMintSet(p) ==
    /\ proc[p].pc = "an_set"
    /\ kv_canvas_lock' = Some(ToJsonBool(TRUE))
    /\ Goto(p, "an_trans")
    /\ UnchDb /\ UnchEnv /\ UNCHANGED <<kv_pixel_lock, kv_cooldown, lc_canvas, bcast>>

AnnounceMintTransition(p) ==
    LET out == UpdateCanvasState(db_canvas, "MintPending", "none") IN
    /\ proc[p].pc = "an_trans"
    /\ db_canvas' = out.row
    /\ IF out.res = "Ok" THEN Goto(p, "an_bcast") ELSE Finish(p, out.res)
    /\ UNCHANGED <<db_collab, db_pixels, created>>
    /\ UnchKv /\ UnchEnv /\ UNCHANGED <<lc_canvas, bcast>>

AnnounceMintBroadcast(p) ==
    /\ proc[p].pc = "an_bcast"
    /\ Broadcast(<<"MintCountdown", "-">>)
    /\ Finish(p, "Ok")
    /\ UnchDb /\ UnchKv /\ UnchEnv /\ UNCHANGED <<lc_canvas>>

(***************************************************************************)
(* nft::cancel_mint_countdown                                              *)
(***************************************************************************)
CancelMintCountdownBegin(p, u) ==
    /\ IsIdle(p)
    /\ IF ~IsSome(db_canvas) THEN BeginFail(p, "cancelMintCountdown", u, "CanvasNotFound")
       ELSE IF Unwrap(db_canvas).owner_id # u
            THEN BeginFail(p, "cancelMintCountdown", u, "NotCanvasOwner")
       ELSE IF Unwrap(db_canvas).state # "MintPending"
            THEN BeginFail(p, "cancelMintCountdown", u,
                           "InvalidParams: Canvas not in mint pending state")
       ELSE Begin(p, "cancelMintCountdown", u, "xc_delete", None)
    /\ UnchDb /\ UnchKv /\ UnchEnv /\ UNCHANGED <<lc_canvas, bcast>>

CancelMintCountdownDelete(p) ==
    /\ proc[p].pc = "xc_delete"
    /\ kv_canvas_lock' = RedisDelete(kv_canvas_lock)
    /\ Goto(p, "xc_trans")
    /\ UnchDb /\ UnchEnv /\ UNCHANGED <<kv_pixel_lock, kv_cooldown, lc_canvas, bcast>>

CancelMintCountdownTransition(p) ==
    LET out == UpdateCanvasState(db_canvas, "Published", "none") IN
    /\ proc[p].pc = "xc_trans"
    /\ db_canvas' = out.row
    /\ IF out.res = "Ok" THEN Goto(p, "xc_bcast") ELSE Finish(p, out.res)
    /\ UNCHANGED <<db_collab, db_pixels, created>>
    /\ UnchKv /\ UnchEnv /\ UNCHANGED <<lc_canvas, bcast>>

CancelMintCountdownBroadcast(p) ==
    /\ proc[p].pc = "xc_bcast"
    /\ Broadcast(<<"MintCountdownCancelled", "-">>)
    /\ Finish(p, "Ok")
    /\ UnchDb /\ UnchKv /\ UnchEnv /\ UNCHANGED <<lc_canvas>>

(***************************************************************************)
(* nft::initiate_nft_mint                                                  *)
(***************************************************************************)
MintBegin(p, u) ==
    /\ IsIdle(p)
    /\ IF ~IsSome(db_canvas) THEN BeginFail(p, "mint", u, "CanvasNotFound")
       ELSE IF Unwrap(db_canvas).owner_id # u THEN BeginFail(p, "mint", u, "NotCanvasOwner")
       ELSE IF Unwrap(db_canvas).state # "MintPending"
            THEN BeginFail(p, "mint", u, "InvalidCanvasStateTransition")
       ELSE Begin(p, "mint", u, "mi_trans", db_canvas)
    /\ UnchDb /\ UnchKv /\ UnchEnv /\ UNCHANGED <<lc_canvas, bcast>>

MintTransition(p) ==
    LET out == UpdateCanvasState(db_canvas, "Minting", "none") IN
    /\ proc[p].pc = "mi_trans"
    /\ db_canvas' = out.row
    /\ IF out.res = "Ok" THEN Goto(p, "mi_bcast") ELSE Finish(p, out.res)
    /\ UNCHANGED <<db_collab, db_pixels, created>>
    /\ UnchKv /\ UnchEnv /\ UNCHANGED <<lc_canvas, bcast>>

\* the broadcast, then the canvas_pda check and the blockhash request
MintBroadcast(p, rpc_ok) ==
    /\ proc[p].pc = "mi_bcast"
    /\ Broadcast(<<"MintingStarted", "-">>)
    /\ IF ~IsSome(Unwrap(proc[p].snap).canvas_pda)
       THEN Finish(p, "InvalidParams: Canvas not published on-chain")
       ELSE IF rpc_ok THEN Finish(p, "Ok") ELSE Finish(p, "SolanaRpc")
    /\ UnchDb /\ UnchKv /\ UnchEnv /\ UNCHANGED <<lc_canvas>>

(***************************************************************************)
(* nft::confirm_nft_mint                                                   *)
(***************************************************************************)
ConfirmMintBegin(p, u) ==
    /\ IsIdle(p)
    /\ IF ~IsSome(db_canvas) THEN BeginFail(p, "confirmMint", u, "CanvasNotFound")
       ELSE IF Unwrap(db_canvas).owner_id # u
            THEN BeginFail(p, "confirmMint", u, "NotCanvasOwner")
       ELSE Begin(p, "confirmMint", u, "cm_verify", None)
    /\ UnchDb /\ UnchKv /\ UnchEnv /\ UNCHANGED <<lc_canvas, bcast>>

ConfirmMintVerify(p, outcome) ==
    /\ proc[p].pc = "cm_verify"
    /\ CASE outcome = "true" -> Goto(p, "cm_trans")
         [] outcome = "false" -> Finish(p, "TransactionFailed")
         [] OTHER -> Finish(p, outcome)
    /\ UnchDb /\ UnchKv /\ UnchEnv /\ UNCHANGED <<lc_canvas, bcast>>

ConfirmMintTransition(p) ==
    LET out == UpdateCanvasState(db_canvas, "Minted", "mint") IN
    /\ proc[p].pc = "cm_trans"
    /\ db_canvas' = out.row
    /\ IF out.res = "Ok" THEN Goto(p, "cm_delete") ELSE Finish(p, out.res)
    /\ UNCHANGED <<db_collab, db_pixels, created>>
    /\ UnchKv /\ UnchEnv /\ UNCHANGED <<lc_canvas, bcast>>

ConfirmMintDelete(p) ==
    /\ proc[p].pc = "cm_delete"
    /\ kv_canvas_lock' = RedisDelete(kv_canvas_lock)
    /\ Goto(p, "cm_bcast")
    /\ UnchDb /\ UnchEnv /\ UNCHANGED <<kv_pixel_lock, kv_cooldown, lc_canvas, bcast>>

ConfirmMintBroadcast(p) ==
    /\ proc[p].pc = "cm_bcast"
    /\ Broadcast(<<"Minted", MintArg>>)
    /\ Finish(p, "Ok")
    /\ UnchDb /\ UnchKv /\ UnchEnv /\ UNCHANGED <<lc_canvas>>

(***************************************************************************)
(* nft::cancel_mint                                                        *)
(***************************************************************************)
CancelMintBegin(p, u) ==
    /\ IsIdle(p)
    /\ IF ~IsSome(db_canvas) THEN BeginFail(p, "cancelMint", u, "CanvasNotFound")
       ELSE IF Unwrap(db_canvas).owner_id # u
            THEN BeginFail(p, "cancelMint", u, "NotCanvasOwner")
       ELSE Begin(p, "cancelMint", u, "xm_trans", None)
    /\ UnchDb /\ UnchKv /\ UnchEnv /\ UNCHANGED <<lc_canvas, bcast>>

CancelMintTransition(p) ==
    LET out == UpdateCanvasState(db_canvas, "Published", "none") IN
    /\ proc[p].pc = "xm_trans"
    /\ db_canvas' = out.row
    /\ IF out.res = "Ok" THEN Goto(p, "xm_delete") ELSE Finish(p, out.res)
    /\ UNCHANGED <<db_collab, db_pixels, created>>
    /\ UnchKv /\ UnchEnv /\ UNCHANGED <<lc_canvas, bcast>>

CancelMintDelete(p) ==
    /\ proc[p].pc = "xm_delete"
    /\ kv_canvas_lock' = RedisDelete(kv_canvas_lock)
    /\ Goto(p, "xm_bcast")
    /\ UnchDb /\ UnchEnv /\ UNCHANGED <<kv_pixel_lock, kv_cooldown, lc_canvas, bcast>>

CancelMintBroadcast(p) ==
    /\ proc[p].pc = "xm_bcast"
    /\ Broadcast(<<"MintingFailed", "Cancelled by user">>)
    /\ Finish(p, "Ok")
    /\ UnchDb /\ UnchKv /\ UnchEnv /\ UNCHANGED <<lc_canvas>>

(***************************************************************************)
(* PixelRepository::upsert_pixel.  color is always supplied by the callers;*)
(* owner and price are options.  An insert of a pixel of a canvas that no  *)
(* longer exists fails on the foreign key.                                 *)
(* Result: [res |-> "Ok" | "DatabaseError", pixels |-> the table after]    *)
(***************************************************************************)
UnwrapOr(o, d) == IF IsSome(o) THEN Unwrap(o) ELSE d

UpsertPixel(pixels, canvas, x, color, owner, price) ==
    IF IsSome(pixels[x])
    THEN [res |-> "Ok",
          pixels |-> [pixels EXCEPT ![x] =
              Some([color |-> color,
                    owner_id |-> IF IsSome(owner) THEN owner ELSE Unwrap(pixels[x]).owner_id,
                    price_lamports |-> UnwrapOr(price, Unwrap(pixels[x]).price_lamports)])]]
    ELSE IF IsSome(canvas)
    THEN [res |-> "Ok",
          pixels |-> [pixels EXCEPT ![x] =
              Some([color |-> color, owner_id |-> owner,
                    price_lamports |-> UnwrapOr(price, 0)])]]
    ELSE [res |-> "DatabaseError", pixels |-> pixels]

(***************************************************************************)
(* The cooldown key.  An entry keeps its text and the instant its TTL runs *)
(* out; a key past that instant reads as absent.                           *)
(***************************************************************************)
RedisLive(entry) == IsSome(entry) /\ now < Unwrap(entry).exp

RedisText(entry) == IF RedisLive(entry) THEN Some(Unwrap(entry).text) ELSE None

\* RedisCache::set: SETEX key ttl.as_secs() json; the server rejects a TTL of 0
RedisSetEx(entry, text, ttl_ms) ==
    IF AsSecs(ttl_ms) = 0 THEN entry
    ELSE Some([text |-> text, exp |-> now + AsSecs(ttl_ms) * MsPerSec])

\* u64::saturating_sub
SaturatingSub(a, b) == IF a >= b THEN a - b ELSE 0

\* (bid as u64) < limit: a negative i64 becomes a value of at least 2^63
BidAsU64Below(bid, limit) == bid >= 0 /\ bid < limit

(***************************************************************************)
(* pixel::place_pixel                                                      *)
(***************************************************************************)
BidOptArgs == {None} \cup {Some(b) : b \in BidArgs}

PlaceArgs(x, color, bid) == [x |-> x, color |-> color, bid |-> UnwrapOr(bid, 0),
                             outcome |-> "-"]

\* the match on canvas.state: the pc to continue at, or the error
PlaceDispatch(st) ==
    CASE st = "Draft" -> [pc |-> "pd_lock", res |-> "-"]
      [] st = "Published" -> [pc |-> "pb_validate", res |-> "-"]
      [] st = "MintPending" -> [pc |-> "done", res |-> "InvalidParams: Canvas is preparing to mint"]
      [] OTHER -> [pc |-> "done", res |-> "InvalidParams: Canvas not in a state that allows pixel placement"]

PlaceBegin(p, u, x, color, bid) ==
    /\ IsIdle(p)
    /\ IF u \notin db_collab THEN BeginFail(p, "place", u, "NotCollaborator")
       ELSE IF x < 0 \/ x >= Width
            THEN BeginFail(p, "place", u, "InvalidParams: Coordinates out of bounds")
       ELSE IF color < 0 \/ color >= ColorCount
            THEN BeginFail(p, "place", u, "InvalidParams: Invalid color")
       ELSE IF IsSome(lc_canvas)
            THEN proc' = [proc EXCEPT ![p] =
                    [Idle EXCEPT !.op = "place", !.user = u, !.snap = lc_canvas,
                                 !.args = PlaceArgs(x, color, bid),
                                 !.pc = PlaceDispatch(Unwrap(lc_canvas).state).pc,
                                 !.res = PlaceDispatch(Unwrap(lc_canvas).state).res]]
       ELSE IF ~IsSome(db_canvas) THEN BeginFail(p, "place", u, "CanvasNotFound")
       ELSE proc' = [proc EXCEPT ![p] =
                    [Idle EXCEPT !.op = "place", !.user = u, !.snap = db_canvas,
                                 !.args = PlaceArgs(x, color, bid), !.pc = "pl_set"]]
    /\ UnchDb /\ UnchKv /\ UnchEnv /\ UNCHANGED <<lc_canvas, bcast>>

PlaceSet(p) ==
    /\ proc[p].pc = "pl_set"
    /\ SetCanvasCache(p)
    /\ proc' = [proc EXCEPT ![p].pc = PlaceDispatch(Unwrap(proc[p].snap).state).pc,
                            ![p].res = PlaceDispatch(Unwrap(proc[p].snap).state).res]
    /\ UnchDb /\ UnchKv /\ UnchEnv /\ UNCHANGED <<bcast>>

(***************************************************************************)
(* pixel::place_pixel_draft                                                *)
(***************************************************************************)
PlaceDraftLock(p) ==
    LET got == RedisGetString(kv_pixel_lock[AsU8(proc[p].args.x)]) IN
    /\ proc[p].pc = "pd_lock"
    /\ CASE got.res = "SerializationError" -> Finish(p, got.res)
         [] got.res = "Some" /\ got.v # UuidToString(proc[p].user).str ->
                Finish(p, "PixelLocked")
         [] OTHER -> Goto(p, "pd_cool")
    /\ UnchDb /\ UnchKv /\ UnchEnv /\ UNCHANGED <<lc_canvas, bcast>>

PlaceDraftCooldown(p) ==
    LET entry == kv_cooldown[proc[p].user]
        got == RedisGetU64(RedisText(entry))
        elapsed == SaturatingSub(now, got.v)
    IN
    /\ proc[p].pc = "pd_cool"
    /\ CASE got.res = "SerializationError" ->
                proc' = [proc EXCEPT ![p].pc = "done", ![p].res = got.res, ![p].pre = entry]
         [] got.res = "Some" /\ elapsed < cooldown_ms ->
                proc' = [proc EXCEPT ![p].pc = "done", ![p].res = "CooldownActive",
                                     ![p].pre = entry,
                                     ![p].out.remaining_ms = cooldown_ms - elapsed]
         [] OTHER -> proc' = [proc EXCEPT ![p].pc = "pd_upsert", ![p].pre = entry]
    /\ UnchDb /\ UnchKv /\ UnchEnv /\ UNCHANGED <<lc_canvas, bcast>>

\* PlaceDraftUpsert handing the caller to upsert_pixel as the owner
PlaceDraftUpsertOwns(p) ==
    LET out == UpsertPixel(db_pixels, db_canvas, proc[p].args.x, proc[p].args.color,
                           Some(proc[p].user), None) IN
    /\ proc[p].pc = "pd_upsert"
    /\ db_pixels' = out.pixels
    /\ IF out.res = "Ok" THEN Goto(p, "pd_join") ELSE Finish(p, out.res)
    /\ UNCHANGED <<db_canvas, db_collab, created>>
    /\ UnchKv /\ UnchEnv /\ UNCHANGED <<lc_canvas, bcast>>

PlaceDraftUpsert(p) ==
    LET out == UpsertPixel(db_pixels, db_canvas, proc[p].args.x, proc[p].args.color,
                           None, None) IN
    /\ proc[p].pc = "pd_upsert"
    /\ db_pixels' = out.pixels
    /\ IF out.res = "Ok" THEN Goto(p, "pd_join") ELSE Finish(p, out.res)
    /\ UNCHANGED <<db_canvas, db_collab, created>>
    /\ UnchKv /\ UnchEnv /\ UNCHANGED <<lc_canvas, bcast>>

\* PlaceDraftJoin without the delete of the pixel snapshot
PlaceDraftJoinKeepsSnapshot(p) ==
    /\ proc[p].pc = "pd_join"
    /\ kv_cooldown' = [kv_cooldown EXCEPT ![proc[p].user] =
                          RedisSetEx(@, ToJsonU64(now), cooldown_ms)]
    /\ Finish(p, "Ok")
    /\ UnchDb /\ UnchEnv /\ UNCHANGED <<kv_canvas_lock, kv_pixel_lock, lc_canvas, bcast>>

\* the join of the cache updates and the cooldown write; their errors are
\* dropped.  LocalCache::update_pixel changes nothing: no code inserts into
\* pixels_cache, so its get finds no entry.
PlaceDraftJoin(p) ==
    /\ proc[p].pc = "pd_join"
    /\ kv_pixels' = RedisDelete(kv_pixels)
    /\ kv_cooldown' = [kv_cooldown EXCEPT ![proc[p].user] =
                          RedisSetEx(@, ToJsonU64(now), cooldown_ms)]
    /\ Finish(p, "Ok")
    /\ UnchDb /\ UnchEnvButPixels
    /\ UNCHANGED <<kv_canvas_lock, kv_pixel_lock, lc_canvas, bcast>>

(***************************************************************************)
(* pixel::place_pixel_bid                                                  *)
(***************************************************************************)
MinRequiredBid(pixel) ==
    IF IsSome(pixel) THEN Unwrap(pixel).price_lamports + 1 ELSE MinBidLamports

PreviousOwnerWallet(pixel) ==
    IF IsSome(pixel) /\ IsSome(Unwrap(pixel).owner_id)
    THEN Some(WalletOf(Unwrap(Unwrap(pixel).owner_id)))
    ELSE None

\* pre keeps the lock key as it stood when the bid passed validation
PlaceBidValidate(p) ==
    LET bid == proc[p].args.bid
        pixel == db_pixels[proc[p].args.x]
    IN
    /\ proc[p].pc = "pb_validate"
    /\ IF BidAsU64Below(bid, MinBidLamports)
       THEN proc' = [proc EXCEPT ![p].pc = "done", ![p].res = "BidTooLow",
                                 ![p].out.min_lamports = MinBidLamports]
       ELSE IF bid < MinRequiredBid(pixel)
       THEN proc' = [proc EXCEPT ![p].pc = "done", ![p].res = "BidTooLow",
                                 ![p].out.min_lamports = MinRequiredBid(pixel)]
       ELSE proc' = [proc EXCEPT ![p].pc = "pb_lock",
                                 ![p].pre = kv_pixel_lock[AsU8(proc[p].args.x)],
                                 ![p].out.previous_owner_wallet = PreviousOwnerWallet(pixel)]
    /\ UnchDb /\ UnchKv /\ UnchEnv /\ UNCHANGED <<lc_canvas, bcast>>

PlaceBidLock(p) ==
    LET k == AsU8(proc[p].args.x)
        r == SetNx(kv_pixel_lock[k], UuidToString(proc[p].user))
    IN
    /\ proc[p].pc = "pb_lock"
    /\ kv_pixel_lock' = [kv_pixel_lock EXCEPT ![k] = r.stored]
    /\ IF r.acquired
       THEN proc' = [proc EXCEPT ![p].pc = "done", ![p].res = "Ok",
                                 ![p].out.requires_confirmation = TRUE]
       ELSE Finish(p, "PixelLocked")
    /\ UnchDb /\ UnchEnv /\ UNCHANGED <<kv_canvas_lock, kv_cooldown, lc_canvas, bcast>>

(***************************************************************************)
(* pixel::confirm_pixel_bid.  One step: the call ends at its first read    *)
(* that fails, and every write it makes follows the lock read.             *)
(* pre keeps the lock key as the call found it.  Its join updates the      *)
(* local pixel cache and deletes the pixel lock; unlike place_pixel_draft  *)
(* and paint_pixel it does not delete the pixel snapshot.                  *)
(***************************************************************************)
ConfirmBidResult(u, x, color, bid, outcome) ==
    LET got == RedisGetString(kv_pixel_lock[AsU8(x)])
        pixel == db_pixels[x]
        up == UpsertPixel(db_pixels, db_canvas, x, color, Some(u), Some(bid))
    IN
    IF BidAsU64Below(bid, MinBidLamports) THEN "BidTooLow"
    ELSE IF got.res = "SerializationError" THEN got.res
    ELSE IF got.res = "None" THEN "InvalidParams: No pending bid for this pixel"
    ELSE IF got.v # UuidToString(u).str
         THEN "InvalidParams: This pixel is locked by another user"
    ELSE IF IsSome(pixel) /\ bid <= Unwrap(pixel).price_lamports THEN "BidTooLow"
    ELSE IF outcome = "false" THEN "TransactionFailed"
    ELSE IF outcome # "true" THEN outcome
    ELSE up.res

ConfirmBid(p, u, x, color, bid, outcome) ==
    LET res == ConfirmBidResult(u, x, color, bid, outcome)
        k == AsU8(x)
    IN
    /\ IsIdle(p)
    /\ db_pixels' = IF res = "Ok"
                    THEN UpsertPixel(db_pixels, db_canvas, x, color, Some(u), Some(bid)).pixels
                    ELSE db_pixels
    /\ kv_pixel_lock' = IF res = "Ok"
                        THEN [kv_pixel_lock EXCEPT ![k] = RedisDelete(@)]
                        ELSE kv_pixel_lock
    /\ proc' = [proc EXCEPT ![p] =
            [Idle EXCEPT !.op = "confirmBid", !.user = u, !.pc = "done", !.res = res,
                         !.pre = kv_pixel_lock[k],
                         !.args = [x |-> x, color |-> color, bid |-> bid,
                                   outcome |-> outcome]]]
    /\ UNCHANGED <<db_canvas, db_collab, created, kv_canvas_lock, kv_cooldown>>
    /\ UnchEnv /\ UNCHANGED <<lc_canvas, bcast>>

(***************************************************************************)
(* pixel::cancel_pixel_bid                                                 *)
(***************************************************************************)
CancelBidResult(u, x) ==
    LET got == RedisGetString(kv_pixel_lock[AsU8(x)]) IN
    IF got.res = "SerializationError" THEN got.res
    ELSE IF got.res = "None" THEN "InvalidParams: No pending bid for this pixel"
    ELSE IF got.v # UuidToString(u).str THEN "InvalidParams: Cannot cancel another user's bid"
    ELSE "Ok"

CancelBid(p, u, x) ==
    LET res == CancelBidResult(u, x)
        k == AsU8(x)
    IN
    /\ IsIdle(p)
    /\ kv_pixel_lock' = IF res = "Ok"
                        THEN [kv_pixel_lock EXCEPT ![k] = RedisDelete(@)]
                        ELSE kv_pixel_lock
    /\ proc' = [proc EXCEPT ![p] =
            [Idle EXCEPT !.op = "cancelBid", !.user = u, !.pc = "done", !.res = res,
                         !.pre = kv_pixel_lock[k],
                         !.args = [NoArgs EXCEPT !.x = x]]]
    /\ UnchDb /\ UnchEnv /\ UNCHANGED <<kv_canvas_lock, kv_cooldown, lc_canvas, bcast>>

(***************************************************************************)
(* pixel::paint_pixel                                                      *)
(***************************************************************************)
\* PaintResult without the comparison of pixel.owner_id with the caller
PaintResultAnyCaller(u, x, color, outcome) ==
    LET pixel == db_pixels[x] IN
    IF ~IsSome(pixel) THEN "InvalidParams: Pixel not found"
    ELSE IF outcome = "false" THEN "TransactionFailed"
    ELSE IF outcome # "true" THEN outcome
    ELSE UpsertPixel(db_pixels, db_canvas, x, color, None, None).res

PaintResult(u, x, color, outcome) ==
    LET pixel == db_pixels[x] IN
    IF ~IsSome(pixel) THEN "InvalidParams: Pixel not found"
    ELSE IF Unwrap(pixel).owner_id # Some(u) THEN "Unauthorized"
    ELSE IF outcome = "false" THEN "TransactionFailed"
    ELSE IF outcome # "true" THEN outcome
    ELSE UpsertPixel(db_pixels, db_canvas, x, color, None, None).res

Paint(p, u, x, color, outcome) ==
    LET res == PaintResult(u, x, color, outcome) IN
    /\ IsIdle(p)
    /\ db_pixels' = IF res = "Ok"
                    THEN UpsertPixel(db_pixels, db_canvas, x, color, None, None).pixels
                    ELSE db_pixels
    /\ kv_pixels' = IF res = "Ok" THEN RedisDelete(kv_pixels) ELSE kv_pixels
    /\ proc' = [proc EXCEPT ![p] =
            [Idle EXCEPT !.op = "paint", !.user = u, !.pc = "done", !.res = res,
                         !.args = [x |-> x, color |-> color, bid |-> 0,
                                   outcome |-> outcome]]]
    /\ UNCHANGED <<db_canvas, db_collab, created>>
    /\ UnchKv /\ UnchEnvButPixels /\ UNCHANGED <<lc_canvas, bcast>>

(***************************************************************************)
(* Time.  The TTLs of the keys and of the local cache (60 s and more) are  *)
(* long against a request, so a key runs out only while no request is in   *)
(* progress or while one waits for the chain.                              *)
(***************************************************************************)
LongWait == \A p \in Procs : IsIdle(p) \/ AtChainWait(p)

ExpireCanvasLock ==
    /\ LongWait
    /\ IsSome(kv_canvas_lock)
    /\ kv_canvas_lock' = None
    /\ UnchDb /\ UnchEnv /\ UNCHANGED <<kv_pixel_lock, kv_cooldown, lc_canvas, bcast, proc>>

ExpirePixelLock(k) ==
    /\ LongWait
    /\ IsSome(kv_pixel_lock[k])
    /\ kv_pixel_lock' = [kv_pixel_lock EXCEPT ![k] = None]
    /\ UnchDb /\ UnchEnv /\ UNCHANGED <<kv_canvas_lock, kv_cooldown, lc_canvas, bcast, proc>>

\* the TTL of the pixel snapshot (redis_cache_mid_ttl)
ExpirePixelSnapshot ==
    /\ LongWait
    /\ IsSome(kv_pixels)
    /\ kv_pixels' = None
    /\ UnchDb /\ UnchKv /\ UnchEnvButPixels /\ UNCHANGED <<lc_canvas, bcast, proc>>

\* moka time_to_live / time_to_idle of canvas_cache
EvictCanvasCache ==
    /\ LongWait
    /\ IsSome(lc_canvas)
    /\ lc_canvas' = None
    /\ UnchDb /\ UnchKv /\ UnchEnv /\ UNCHANGED <<bcast, proc>>

\* the clock advances between requests
TickMs == 500
MaxNow == 6000

Tick ==
    /\ \A p \in Procs : IsIdle(p)
    /\ now + TickMs <= MaxNow
    /\ now' = now + TickMs
    /\ UnchDb /\ UnchKv /\ UNCHANGED <<cooldown_ms, tr, window, lc_canvas, bcast, proc>>
    /\ UnchAux

(***************************************************************************)
(* Requests and their continuations                                        *)
(***************************************************************************)
\* a request is served by the first free task
FirstFree(p) == \A q \in Procs : q < p => ~IsIdle(q)

CollabBegin(p) ==
    \E u \in Users :
        \/ JoinBegin(p, u)
        \/ GetCanvasBegin(p, u)

CollabStep(p) ==
    \/ JoinAdd(p)
    \/ GetCanvasSet(p)
    \/ GetCanvasPixels(p)
    \/ GetCanvasStore(p)

LifeBegin(p) ==
    \E u \in Users :
        \/ CreateCanvas(p, u)
        \/ PublishBegin(p, u)
        \/ ConfirmPublishBegin(p, u)
        \/ CancelPublishBegin(p, u)
        \/ DeleteBegin(p, u)
        \/ AnnounceMintBegin(p, u)
        \/ CancelMintCountdownBegin(p, u)
        \/ MintBegin(p, u)
        \/ ConfirmMintBegin(p, u)
        \/ CancelMintBegin(p, u)

LifeStep(p) ==
    \/ PublishLock(p)
    \/ \E rpc_ok \in BOOLEAN : PublishTransition(p, rpc_ok)
    \/ ConfirmPublishSet(p)
    \/ \E outcome \in VerifyOutcomes : ConfirmPublishVerify(p, outcome)
    \/ ConfirmPublishTransition(p)
    \/ ConfirmPublishInvalidate(p)
    \/ ConfirmPublishDeleteLock(p)
    \/ ConfirmPublishBroadcast(p)
    \/ CancelPublishSet(p)
    \/ CancelPublishTransition(p)
    \/ CancelPublishInvalidate(p)
    \/ CancelPublishDeleteLock(p)
    \/ DeleteRows(p)
    \/ DeleteInvalidate(p)
    \/ DeleteDeleteLock(p)
    \/ AnnounceMintGet(p)
    \/ AnnounceMintSet(p)
    \/ AnnounceMintTransition(p)
    \/ AnnounceMintBroadcast(p)
    \/ CancelMintCountdownDelete(p)
    \/ CancelMintCountdownTransition(p)
    \/ CancelMintCountdownBroadcast(p)
    \/ MintTransition(p)
    \/ \E rpc_ok \in BOOLEAN : MintBroadcast(p, rpc_ok)
    \/ \E outcome \in VerifyOutcomes : ConfirmMintVerify(p, outcome)
    \/ ConfirmMintTransition(p)
    \/ ConfirmMintDelete(p)
    \/ ConfirmMintBroadcast(p)
    \/ CancelMintTransition(p)
    \/ CancelMintDelete(p)
    \/ CancelMintBroadcast(p)
    \/ Return(p)

PlaceRequest(p) ==
    \E u \in Users, x \in XArgs, color \in ColorArgs, bid \in BidOptArgs :
        PlaceBegin(p, u, x, color, bid)

BidRequests(p) ==
    \E u \in Users, x \in XArgs :
        \/ \E color \in ColorArgs, bid \in BidArgs, outcome \in VerifyOutcomes :
              ConfirmBid(p, u, x, color, bid, outcome)
        \/ CancelBid(p, u, x)
        \/ \E color \in ColorArgs, outcome \in VerifyOutcomes : Paint(p, u, x, color, outcome)

PlaceDraftStep(p) ==
    \/ PlaceDraftLock(p)
    \/ PlaceDraftCooldown(p)
    \/ PlaceDraftUpsert(p)
    \/ PlaceDraftJoin(p)

PlaceBidStep(p) ==
    \/ PlaceBidValidate(p)
    \/ PlaceBidLock(p)

\* no other request is in progress
Alone(p) == \A q \in Procs \ {p} : IsIdle(q)

(***************************************************************************)
(* middleware::rate_limit.  One limiter and one client key; the counter of *)
(* window w is the key rate:{prefix}:{key}:{w}.  The wall clock of the     *)
(* limiter is in seconds: EpochSecs at now = 0.                            *)
(***************************************************************************)
\* create_limiter: window_duration_secs
WindowDurationSecs == 60
\* RATE_LIMIT_CANVAS default
RateLimitCanvas == 5
\* MAX_COLLABORATORS default
DefaultMaxCollaborators == 50

\* max_requests_per_window of the limiters that are run against the clock
RateCapArgs == {1, 2}

EpochSecs == 120
RateTickMs == 30000
RateMaxNow == 180000
\* checks issued in one window beyond the cap
RateExtra == 2

\* Utc::now().timestamp() as u64
NowSecs == EpochSecs + now \div MsPerSec

RateWindows == 0 .. ((EpochSecs + RateMaxNow \div MsPerSec) \div WindowDurationSecs)

\* serde_json::from_str::<u32>; the counters of the model stay far below 2^32
FromJsonU32(t) ==
    IF t.shape = "num" /\ t.num >= 0 THEN [ok |-> TRUE, v |-> t.num]
    ELSE [ok |-> FALSE, v |-> 0]

RedisGetU32(stored) ==
    IF ~IsSome(stored) THEN [res |-> "None", v |-> 0]
    ELSE IF FromJsonU32(Unwrap(stored)).ok
         THEN [res |-> "Some", v |-> FromJsonU32(Unwrap(stored)).v]
         ELSE [res |-> "SerializationError", v |-> 0]

\* (previous_count * previous_weight + current_count).ceil(), with
\* previous_weight = 1 - seconds_into_current / window_secs, as a real number;
\* the f64 evaluation is exact whenever previous_count = 0
WeightedCount(previous_count, current_count, seconds_into_current, window_secs) ==
    current_count
      + (previous_count * (window_secs - seconds_into_current) + window_secs - 1)
            \div window_secs

\* the limiter lets a request through one count too late
RateAllowedInclusive(weighted_count, max_requests) == weighted_count <= max_requests

\* the negation of `weighted_count >= max_requests_per_window`
RateAllowed(weighted_count, max_requests) == weighted_count < max_requests

\* RateLimiter::check at wall clock secs against the counters store.
\* Result: res, (allowed, remaining, reset_at) and the counters afterwards.
RateLimiterCheck(store, cfg, secs) ==
    LET window_secs == cfg.window_duration_secs
        current_window == secs \div window_secs
        previous_window == SaturatingSub(current_window, 1)
        cur == RedisGetU32(RedisText(store[current_window]))
        prev == RedisGetU32(RedisText(store[previous_window]))
        weighted_count == WeightedCount(prev.v, cur.v, secs % window_secs, window_secs)
        reset_at == (current_window + 1) * window_secs
    IN
    IF cur.res = "SerializationError" \/ prev.res = "SerializationError"
    THEN [res |-> "SerializationError", allowed |-> FALSE, remaining |-> 0,
          reset_at |-> 0, store |-> store]
    ELSE IF ~RateAllowed(weighted_count, cfg.max_requests_per_window)
    THEN [res |-> "Ok", allowed |-> FALSE, remaining |-> 0, reset_at |-> reset_at,
          store |-> store]
    ELSE [res |-> "Ok", allowed |-> TRUE,
          remaining |-> SaturatingSub(cfg.max_requests_per_window, weighted_count + 1),
          reset_at |-> reset_at,
          store |-> [store EXCEPT ![current_window] =
                        RedisSetEx(@, ToJsonU64(cur.v + 1),
                                   window_secs * 2 * MsPerSec)]]

\* one check of dispatch_method, no other check in progress
RateCheck ==
    LET out == RateLimiterCheck(kv_rate, rate_config, NowSecs)
        w == NowSecs \div rate_config.window_duration_secs
    IN
    /\ rate_seen[w] < rate_config.max_requests_per_window + RateExtra
    /\ kv_rate' = out.store
    /\ rate_seen' = [rate_seen EXCEPT ![w] = @ + 1]
    /\ rate_last' = Some([at |-> NowSecs, window |-> w, res |-> out.res,
                          allowed |-> out.allowed, remaining |-> out.remaining,
                          reset_at |-> out.reset_at,
                          nth |-> rate_seen[w] + 1,
                          seen_previous |-> rate_seen[SaturatingSub(w, 1)]])
    /\ UnchDb /\ UnchKv
    /\ UNCHANGED <<lc_canvas, bcast, window, proc, now, cooldown_ms, tr, max_collaborators,
                   rate_config, kv_nonce, nonce_log, calc,
                   kv_pixels, ws_rooms, ws_count, ws_task>>

RateTick ==
    /\ now + RateTickMs <= RateMaxNow
    /\ now' = now + RateTickMs
    /\ UnchDb /\ UnchKv
    /\ UNCHANGED <<lc_canvas, bcast, window, proc, cooldown_ms, tr>>
    /\ UnchAux

NoRate ==
    /\ kv_rate = [w \in RateWindows |-> None]
    /\ rate_seen = [w \in RateWindows |-> 0]
    /\ rate_last = None

(***************************************************************************)
(* auth::check_and_consume_nonce for one (wallet, nonce) pair              *)
(***************************************************************************)
MessageValiditySecs == 300
NonceGraceSecs == 60

NonceTickMs == 120000
NonceMaxNow == 480000
NonceLogCap == 3

\* the request reaches check_and_consume_nonce
NonceBegin(p) ==
    /\ IsIdle(p)
    /\ Len(nonce_log) + Cardinality({q \in Procs : proc[q].pc = "nonce_setnx"}) < NonceLogCap
    /\ Begin(p, "nonce", Owner, "nonce_setnx", None)
    /\ UnchDb /\ UnchKv /\ UnchEnv /\ UNCHANGED <<lc_canvas, bcast>>

\* SET auth:nonce:{wallet}:{nonce} true NX EX 360
NonceSetnx(p) ==
    LET r == SetNx(RedisText(kv_nonce), SetnxText)
        ttl_ms == (MessageValiditySecs + NonceGraceSecs) * MsPerSec
        res == IF r.acquired THEN "Ok" ELSE "InvalidSignature"
    IN
    /\ proc[p].pc = "nonce_setnx"
    /\ kv_nonce' = IF r.acquired
                   THEN Some([text |-> Unwrap(r.stored),
                              exp |-> now + AsSecs(ttl_ms) * MsPerSec])
                   ELSE kv_nonce
    /\ nonce_log' = Append(nonce_log, [at |-> now, res |-> res])
    /\ Finish(p, res)
    /\ UnchDb /\ UnchKv
    /\ UNCHANGED <<lc_canvas, bcast, window, now, cooldown_ms, tr, max_collaborators,
                   rate_config, kv_rate, rate_seen, rate_last, calc,
                   kv_pixels, ws_rooms, ws_count, ws_task>>

NonceTick ==
    /\ now + NonceTickMs <= NonceMaxNow
    /\ now' = now + NonceTickMs
    /\ UnchDb /\ UnchKv
    /\ UNCHANGED <<lc_canvas, bcast, window, proc, cooldown_ms, tr>>
    /\ UnchAux

NoNonce ==
    /\ kv_nonce = None
    /\ nonce_log = << >>

\* the defaults of Config::from_env
DefaultLimits ==
    /\ max_collaborators = DefaultMaxCollaborators
    /\ rate_config = [max_requests_per_window |-> RateLimitCanvas,
                      window_duration_secs |-> WindowDurationSecs]

(***************************************************************************)
(* Initial states                                                          *)
(***************************************************************************)
NoCanvas ==
    /\ db_canvas = None
    /\ db_collab = {}
    /\ db_pixels = [x \in XArgs |-> None]
    /\ created = FALSE

\* no key of the canvas, no request in progress, the clock at its start
Silent ==
    /\ kv_canvas_lock = None
    /\ kv_pixel_lock = [k \in LockKeys |-> None]
    /\ kv_cooldown = [u \in Users |-> None]
    /\ kv_pixels = None
    /\ ws_rooms = None
    /\ ws_count = [r \in RoomIds |-> 0]
    /\ ws_task = [h \in WsTasks |-> WsIdle]
    /\ bcast = << >>
    /\ proc = [p \in Procs |-> Idle]
    /\ now = 0
    /\ tr = None

Quiet ==
    /\ Silent
    /\ NoRate
    /\ NoNonce
    /\ DefaultLimits
    /\ calc = None

\* a canvas in state st that every user has joined, as the lifecycle leaves it
JoinedCanvas(st) ==
    /\ db_canvas = Some(RowOfState(st))
    /\ db_collab = Users
    /\ db_pixels \in {InitializeCanvasPixels(color) : color \in InitialColorArgs}
    /\ created = TRUE

(***************************************************************************)
(* SpecTrans: update_canvas_state called directly, from every stored row   *)
(***************************************************************************)
TransInit ==
    /\ db_canvas \in {None} \cup {Some(RowOfState(s)) : s \in CanvasStates}
    /\ db_collab = {}
    /\ db_pixels = [x \in XArgs |-> None]
    /\ created = TRUE
    /\ lc_canvas = None
    /\ cooldown_ms = DefaultCooldownMs
    /\ window = LogCap
    /\ Quiet

TransCall(target, updater) ==
    LET out == UpdateCanvasState(db_canvas, target, updater) IN
    /\ db_canvas' = out.row
    /\ tr' = Some([before |-> db_canvas, target |-> target, updater |-> updater,
                   res |-> out.res])
    /\ UNCHANGED <<db_collab, db_pixels, created, lc_canvas, bcast, window, proc, now, cooldown_ms>>
    /\ UnchKv /\ UnchAux

TransNext == \E target \in CanvasStates, updater \in Updaters : TransCall(target, updater)

SpecTrans == TransInit /\ [][TransNext]_vars

(***************************************************************************)
(* SpecLife: the lifecycle requests of two tasks, interleaved step by step *)
(***************************************************************************)
\* the interleaved runs do not observe the broadcasts
LifeInit ==
    /\ NoCanvas
    /\ lc_canvas = None
    /\ cooldown_ms = DefaultCooldownMs
    /\ window = 0
    /\ Quiet

LifeNext ==
    \/ \E p \in Procs : (FirstFree(p) /\ LifeBegin(p)) \/ LifeStep(p)
    \/ ExpireCanvasLock
    \/ EvictCanvasCache

SpecLife == LifeInit /\ [][LifeNext]_vars

(***************************************************************************)
(* SpecSeq: every request, one at a time                                   *)
(***************************************************************************)
SeqNext ==
    \/ \E p \in Procs :
          /\ Alone(p)
          /\ \/ LifeBegin(p) \/ LifeStep(p)
             \/ CollabBegin(p) \/ CollabStep(p)
    \/ ExpireCanvasLock
    \/ EvictCanvasCache

SeqInit ==
    /\ NoCanvas
    /\ lc_canvas = None
    /\ cooldown_ms = DefaultCooldownMs
    /\ window = LogCap
    /\ Quiet

SpecSeq == SeqInit /\ [][SeqNext]_vars

(***************************************************************************)
(* SpecBid: place, confirm, cancel and paint of two tasks on a Published   *)
(* canvas, interleaved step by step                                        *)
(***************************************************************************)
BidInit ==
    /\ JoinedCanvas("Published")
    /\ lc_canvas = None
    /\ cooldown_ms = DefaultCooldownMs
    /\ window = LogCap
    /\ Quiet

BidNext ==
    \/ \E p \in Procs :
          \/ PlaceRequest(p) \/ PlaceSet(p) \/ PlaceBidStep(p)
          \/ BidRequests(p)
          \/ Return(p)
    \/ \E k \in LockKeys : ExpirePixelLock(k)

SpecBid == BidInit /\ [][BidNext]_vars

(***************************************************************************)
(* SpecCooldown: draft placements one at a time, against the clock, for    *)
(* each configured cooldown                                                *)
(***************************************************************************)
CooldownMsArgs == {1500, DefaultCooldownMs}

CooldownInit ==
    /\ JoinedCanvas("Draft")
    /\ lc_canvas = None
    /\ cooldown_ms \in CooldownMsArgs
    /\ window = LogCap
    /\ Quiet

CooldownNext ==
    \/ \E p \in Procs :
          /\ Alone(p)
          /\ PlaceRequest(p) \/ PlaceSet(p) \/ PlaceDraftStep(p) \/ Return(p)
    \/ Tick

SpecCooldown == CooldownInit /\ [][CooldownNext]_vars

(***************************************************************************)
(* Properties                                                              *)
(***************************************************************************)
StoredState == Unwrap(db_canvas).state

AtOrPastPublished == {"Published", "MintPending", "Minting", "Minted"}

LastBroadcast == IF bcast = << >> THEN <<"-", "-">> ELSE bcast[Len(bcast)]

\* p has finished a call of op with result res and has not yet returned
Ended(p, op, res) == proc[p].op = op /\ proc[p].pc = "done" /\ proc[p].res = res

\* the eight edges of the lifecycle table
C1_Edges ==
    { <<"Draft", "Publishing">>, <<"Publishing", "Published">>, <<"Publishing", "Draft">>,
      <<"Published", "MintPending">>, <<"MintPending", "Published">>,
      <<"MintPending", "Minting">>, <<"Minting", "Minted">>, <<"Minting", "Published">> }

\* C1: update_canvas_state to target t on a row whose stored state is s
\* succeeds and stores t iff (s,t) is one of the eight edges; for every other
\* pair it fails with InvalidCanvasStateTransition and the row is unchanged.
C1_TransitionTable ==
    (IsSome(tr) /\ IsSome(Unwrap(tr).before)) =>
        IF <<Unwrap(Unwrap(tr).before).state, Unwrap(tr).target>> \in C1_Edges
        THEN /\ Unwrap(tr).res = "Ok"
             /\ IsSome(db_canvas)
             /\ StoredState = Unwrap(tr).target
        ELSE /\ Unwrap(tr).res = "InvalidCanvasStateTransition"
             /\ db_canvas = Unwrap(tr).before

C1_Witness ==
    /\ IsSome(tr)
    /\ IsSome(Unwrap(tr).before)
    /\ Unwrap(Unwrap(tr).before).state = "Draft"
    /\ Unwrap(tr).target = "Published"
    /\ Unwrap(tr).res = "InvalidCanvasStateTransition"
    /\ db_canvas = Unwrap(tr).before

\* C2: in every state reachable by any interleaving of the lifecycle requests,
\* the stored canvas has canvas_pda present iff its state is Published,
\* MintPending, Minting or Minted.
C2_PdaIffPublished ==
    IsSome(db_canvas) =>
        (IsSome(Unwrap(db_canvas).canvas_pda) <=> StoredState \in AtOrPastPublished)

\* C3: in every state reachable by any interleaving of the lifecycle requests,
\* the stored canvas has mint_address present iff its state is Minted.
C3_MintIffMinted ==
    IsSome(db_canvas) =>
        (IsSome(Unwrap(db_canvas).mint_address) <=> StoredState = "Minted")

\* confirmMint wins against a cancelMint that started while the canvas was Minting
C3_Witness ==
    /\ IsSome(db_canvas)
    /\ StoredState = "Minted"
    /\ Unwrap(db_canvas).mint_address = Some(MintArg)
    /\ \E p \in Procs : Ended(p, "cancelMint", "InvalidCanvasStateTransition")

\* a successful publish leaves state Publishing with the canvas lock held
C8_PublishLeaves ==
    \A p \in Procs :
        Ended(p, "publish", "Ok") =>
            /\ IsSome(db_canvas)
            /\ StoredState = "Publishing"
            /\ kv_canvas_lock = Some(SetnxText)

\* a successful confirmPublish leaves the canvas Published, unlocked, uncached
C8_ConfirmLeaves ==
    \A p \in Procs :
        Ended(p, "confirmPublish", "Ok") =>
            /\ IsSome(db_canvas)
            /\ StoredState = "Published"
            /\ Unwrap(db_canvas).canvas_pda = Some(PdaArg)
            /\ IsSome(Unwrap(db_canvas).published_at)
            /\ kv_canvas_lock = None
            /\ lc_canvas = None
            /\ LastBroadcast = <<"Published", PdaArg>>

\* the step that emits Published starts with the lock deleted and the cache
\* entry invalidated
C8_BroadcastStep ==
    (bcast' # bcast /\ bcast'[Len(bcast')][1] = "Published") =>
        /\ kv_canvas_lock = None
        /\ lc_canvas = None
        /\ IsSome(db_canvas) /\ StoredState = "Published"
        /\ \E p \in Procs : proc[p].did = {"invalidate", "delete"}

\* C8: publish by the owner on a Draft canvas with the canvas lock free leaves
\* state Publishing with the lock held; a following confirmPublish with a
\* verified transaction leaves state Published with canvas_pda and published_at
\* set, the lock deleted and the local cache entry invalidated; the Published
\* broadcast is emitted only after the lock delete and the invalidation.
C8_PublishThenConfirm ==
    /\ [](C8_PublishLeaves /\ C8_ConfirmLeaves)
    /\ [][C8_BroadcastStep]_vars

\* the first broadcast of the run is the Published of a confirmed publish
C8_Witness ==
    /\ \E p \in Procs : Ended(p, "confirmPublish", "Ok")
    /\ bcast = << <<"Published", PdaArg>> >>
    /\ IsSome(db_canvas) /\ StoredState = "Published"
    /\ kv_canvas_lock = None

\* C9 as stated: the canvas lock is held from announceMint until confirmMint
\* deletes it, i.e. between requests a MintPending or Minting canvas is locked.
C9_LockHeldUntilConfirm ==
    (/\ \A p \in Procs : IsIdle(p)
     /\ IsSome(db_canvas)
     /\ StoredState \in {"MintPending", "Minting"}) => IsSome(kv_canvas_lock)

LastThree ==
    IF Len(bcast) < 3 THEN << >> ELSE SubSeq(bcast, Len(bcast) - 2, Len(bcast))

C9_AnnounceLeaves ==
    \A p \in Procs :
        Ended(p, "announceMint", "Ok") =>
            /\ IsSome(db_canvas) /\ StoredState = "MintPending"
            /\ kv_canvas_lock = Some(ToJsonBool(TRUE))
            /\ LastBroadcast[1] = "MintCountdown"

C9_MintLeaves ==
    \A p \in Procs :
        Ended(p, "mint", "Ok") =>
            /\ IsSome(db_canvas) /\ StoredState = "Minting"
            /\ LastBroadcast[1] = "MintingStarted"

C9_ConfirmLeaves ==
    \A p \in Procs :
        Ended(p, "confirmMint", "Ok") =>
            /\ IsSome(db_canvas) /\ StoredState = "Minted"
            /\ Unwrap(db_canvas).mint_address = Some(MintArg)
            /\ kv_canvas_lock = None
            /\ LastThree = << <<"MintCountdown", "-">>, <<"MintingStarted", "-">>,
                              <<"Minted", MintArg>> >>

\* each of the three broadcasts follows the commit of its own transition
C9_BroadcastStep ==
    bcast' # bcast =>
        LET kind == bcast'[Len(bcast')][1] IN
        /\ kind = "MintCountdown" => (IsSome(db_canvas) /\ StoredState = "MintPending")
        /\ kind = "MintingStarted" => (IsSome(db_canvas) /\ StoredState = "Minting")
        /\ kind = "Minted" => (IsSome(db_canvas) /\ StoredState = "Minted")

\* while the canvas is MintPending or Minting the lock goes away only by its
\* TTL (no task moves) or by the delete of cancelMintCountdown
C9_ReleaseStep ==
    (/\ IsSome(db_canvas)
     /\ StoredState \in {"MintPending", "Minting"}
     /\ IsSome(kv_canvas_lock)
     /\ kv_canvas_lock' = None) =>
        \/ proc' = proc
        \/ \E p \in Procs : proc[p].op = "cancelMintCountdown"

\* C9 (amended): from a Published canvas with the lock free, announceMint, mint
\* and confirmMint (verified, mint address m) pass through MintPending, Minting
\* and Minted; announceMint leaves the lock written, from then until confirmMint
\* it is released only by its 60 s TTL running out or by a cancel, and it is
\* absent after confirmMint; mint_address = m is stored; the room receives
\* MintCountdown, MintingStarted, Minted{m} in that order, each after the commit
\* of its own transition.
C9_MintPath ==
    /\ [](C9_AnnounceLeaves /\ C9_MintLeaves /\ C9_ConfirmLeaves)
    /\ [][C9_BroadcastStep /\ C9_ReleaseStep]_vars

C9_Witness ==
    /\ \E p \in Procs : Ended(p, "confirmMint", "Ok")
    /\ IsSome(db_canvas) /\ StoredState = "Minted"
    /\ Unwrap(db_canvas).mint_address = Some(MintArg)
    /\ LastBroadcast = <<"Minted", MintArg>>
    /\ kv_canvas_lock = None

\* C10: under any interleaving of delete_canvas with the lifecycle requests
\* and with reads served from the local cache, the canvas row is removed only
\* while its stored state is Draft (pre is the row DeleteRows removed).
C10_DeleteOnlyDraft ==
    \A p \in Procs :
        (proc[p].op = "delete" /\ IsSome(proc[p].pre)) =>
            Unwrap(proc[p].pre).state = "Draft"

\* two finished bid placements by different users on the same pixel, each of
\* which passed validation while the lock key was absent
BidPair(p, q) ==
    /\ p # q
    /\ proc[p].op = "place" /\ proc[q].op = "place"
    /\ proc[p].pc = "done" /\ proc[q].pc = "done"
    /\ proc[p].res \in {"Ok", "PixelLocked"} /\ proc[q].res \in {"Ok", "PixelLocked"}
    /\ proc[p].user # proc[q].user
    /\ AsU8(proc[p].args.x) = AsU8(proc[q].args.x)
    /\ proc[p].pre = None /\ proc[q].pre = None

\* C5: of two concurrent bid placements by different users on the same pixel
\* of a Published canvas that both pass validation while no lock exists,
\* exactly one acquires the lock (stored value = its caller's id) and returns
\* requires_confirmation = true; the other fails with PixelLocked.
C5_ExactlyOneAcquires ==
    \A p, q \in Procs :
        BidPair(p, q) =>
            \E w \in {p, q} : \E l \in {p, q} \ {w} :
                /\ proc[w].res = "Ok"
                /\ proc[w].out.requires_confirmation
                /\ kv_pixel_lock[AsU8(proc[w].args.x)] = Some(UuidToString(proc[w].user))
                /\ proc[l].res = "PixelLocked"
                /\ ~proc[l].out.requires_confirmation

C5_Witness ==
    \E p, q \in Procs :
        /\ BidPair(p, q)
        /\ proc[p].res = "Ok"
        /\ proc[q].res = "PixelLocked"
        /\ kv_pixel_lock[AsU8(proc[p].args.x)] = Some(UuidToString(proc[p].user))

\* C6 (its last step): a confirm by the user whose lock is live, with a bid of
\* at least the minimum and above the price and a verified transaction, sets
\* the pixel to (color, owner = caller, price = bid) and releases the lock.
C6_ConfirmByHolder ==
    \A p \in Procs :
        (/\ proc[p].op = "confirmBid" /\ proc[p].pc = "done"
         /\ proc[p].pre = Some(UuidToString(proc[p].user))
         /\ proc[p].args.x < Width
         /\ proc[p].args.bid >= MinBidLamports
         /\ proc[p].args.outcome = "true") =>
            /\ proc[p].res = "Ok"
            /\ db_pixels[proc[p].args.x] =
                   Some([color |-> proc[p].args.color, owner_id |-> Some(proc[p].user),
                         price_lamports |-> proc[p].args.bid])
            /\ kv_pixel_lock[AsU8(proc[p].args.x)] = None

\* C7: after a draft place by U completed at time t (cooldown key set to t),
\* a later place by U at t' with t' - t < cooldown_ms fails with
\* CooldownActive{remaining_ms}, 0 < remaining_ms <= cooldown_ms.
\* pre is the cooldown key of U as written by the last completed place.
C7_CooldownEnforced ==
    \A p \in Procs :
        (/\ proc[p].op = "place" /\ proc[p].pc = "done"
         /\ proc[p].res \in {"Ok", "CooldownActive"}
         /\ IsSome(proc[p].pre)
         /\ now - Unwrap(proc[p].pre).text.num < cooldown_ms) =>
            /\ proc[p].res = "CooldownActive"
            /\ proc[p].out.remaining_ms > 0
            /\ proc[p].out.remaining_ms <= cooldown_ms

(***************************************************************************)
(* SpecLimiter: checks of one client key, one after another, against the   *)
(* clock, for each configured cap                                          *)
(***************************************************************************)
LimiterInit ==
    /\ NoCanvas
    /\ lc_canvas = None
    /\ cooldown_ms = DefaultCooldownMs
    /\ window = LogCap
    /\ Silent
    /\ NoRate
    /\ NoNonce
    /\ max_collaborators = DefaultMaxCollaborators
    /\ rate_config \in {[max_requests_per_window |-> c,
                         window_duration_secs |-> WindowDurationSecs] : c \in RateCapArgs}
    /\ calc = None

LimiterNext ==
    \/ RateCheck
    \/ RateTick

SpecLimiter == LimiterInit /\ [][LimiterNext]_vars

\* C11: with checks issued one after another and no check issued in the
\* previous window, the n-th check of a window is allowed iff n <= C: the first
\* C are allowed and the (C+1)-th is denied with reset_at = (window+1)*W; this
\* covers the C checks of a window that starts 2*W after a full one, whose
\* previous window saw no check.
C11_CapPerWindow ==
    IsSome(rate_last) =>
        LET r == Unwrap(rate_last) IN
        r.seen_previous = 0 =>
            /\ r.res = "Ok"
            /\ r.allowed <=> r.nth <= rate_config.max_requests_per_window
            /\ ~r.allowed =>
                  r.reset_at = (r.window + 1) * rate_config.window_duration_secs

\* the C-th allowed check of a window two windows after one that was filled
\* and then refused a check
C11_Witness ==
    /\ IsSome(rate_last)
    /\ Unwrap(rate_last).allowed
    /\ Unwrap(rate_last).nth = rate_config.max_requests_per_window
    /\ Unwrap(rate_last).seen_previous = 0
    /\ Unwrap(rate_last).window >= 2
    /\ rate_seen[Unwrap(rate_last).window - 2] = rate_config.max_requests_per_window + 1

(***************************************************************************)
(* SpecNonce: two tasks presenting the same (wallet, nonce), interleaved,  *)
(* against the clock                                                       *)
(***************************************************************************)
NonceInit ==
    /\ NoCanvas
    /\ lc_canvas = None
    /\ cooldown_ms = DefaultCooldownMs
    /\ window = LogCap
    /\ Quiet

NonceNext ==
    \/ \E p \in Procs : NonceBegin(p) \/ NonceSetnx(p) \/ Return(p)
    \/ NonceTick

SpecNonce == NonceInit /\ [][NonceNext]_vars

\* C12: among the check_and_consume_nonce calls for one (wallet, nonce) made
\* less than 360 s after the first one, sequential or concurrent, exactly the
\* first succeeds and every other fails with InvalidSignature.
C12_NonceOnce ==
    \A i \in 1 .. Len(nonce_log) :
        nonce_log[i].at - nonce_log[1].at
                < (MessageValiditySecs + NonceGraceSecs) * MsPerSec =>
            nonce_log[i].res = (IF i = 1 THEN "Ok" ELSE "InvalidSignature")

\* two concurrent calls at the start and a third one 240 s later
C12_Witness ==
    /\ Len(nonce_log) = 3
    /\ nonce_log[1].res = "Ok"
    /\ nonce_log[2].at = nonce_log[1].at
    /\ nonce_log[2].res = "InvalidSignature"
    /\ nonce_log[3].at - nonce_log[1].at = 2 * NonceTickMs
    /\ nonce_log[3].res = "InvalidSignature"

(***************************************************************************)
(* canvas::pack_pixels_to_colors and the unpacking loop of                 *)
(* nft::image::generate_png_from_colors.  u8 arithmetic is kept: a left    *)
(* shift drops the bits that leave the byte.                               *)
(***************************************************************************)
Height == 32
DefaultColorIndex == 10
Groups == 256
PackedLen == 768
PngPixels == 1024
ByteSize == 256

RECURSIVE BitAnd(_, _)
BitAnd(a, b) ==
    IF a = 0 \/ b = 0 THEN 0
    ELSE (a % 2) * (b % 2) + 2 * BitAnd(a \div 2, b \div 2)

RECURSIVE BitOr(_, _)
BitOr(a, b) ==
    IF a = 0 THEN b
    ELSE IF b = 0 THEN a
    ELSE (IF a % 2 = 1 \/ b % 2 = 1 THEN 1 ELSE 0) + 2 * BitOr(a \div 2, b \div 2)

Shl(b, n) == (b * 2^n) % ByteSize
Shr(b, n) == b \div 2^n

\* the first loop: colors[y * width + x] = pixel.color as u8 & 0x3F; every
\* other cell keeps DEFAULT_COLOR.  The rows of a canvas have distinct (x, y)
\* (the key of the pixels table), so the order of the slice does not matter
\* and pixels is the set of its rows.
FlattenColors(pixels, width, height) ==
    [i \in 0 .. (width * height - 1) |->
        LET hits == {r \in pixels : r.y * width + r.x = i} IN
        IF hits = {} THEN DefaultColorIndex
        ELSE BitAnd(AsU8((CHOOSE r \in hits : TRUE).color), 63)]

\* colors.get(i).copied().unwrap_or(DEFAULT_COLOR)
ColorAt(colors, i) == IF i \in DOMAIN colors THEN colors[i] ELSE DefaultColorIndex

\* byte 0 takes only the top bit of the second color
PackByteShiftsTooFar(r, c0, c1, c2, c3) ==
    CASE r = 0 -> BitOr(Shl(c0, 2), Shr(c1, 5))
      [] r = 1 -> BitOr(Shl(BitAnd(c1, 15), 4), Shr(c2, 2))
      [] OTHER -> BitOr(Shl(BitAnd(c2, 3), 6), c3)

\* byte r of a 3-byte group holding the colors c0..c3
PackByte(r, c0, c1, c2, c3) ==
    CASE r = 0 -> BitOr(Shl(c0, 2), Shr(c1, 4))
      [] r = 1 -> BitOr(Shl(BitAnd(c1, 15), 4), Shr(c2, 2))
      [] OTHER -> BitOr(Shl(BitAnd(c2, 3), 6), c3)

\* the second loop of pack_pixels_to_colors
PackGroups(colors) ==
    [b \in 0 .. (PackedLen - 1) |->
        LET base_pixel == (b \div 3) * 4 IN
        PackByte(b % 3, ColorAt(colors, base_pixel), ColorAt(colors, base_pixel + 1),
                 ColorAt(colors, base_pixel + 2), ColorAt(colors, base_pixel + 3))]

\* color k of the group stored in the bytes b0, b1, b2
UnpackColor(k, b0, b1, b2) ==
    CASE k = 0 -> BitAnd(Shr(b0, 2), 63)
      [] k = 1 -> BitOr(Shl(BitAnd(b0, 3), 4), BitAnd(Shr(b1, 4), 15))
      [] k = 2 -> BitOr(Shl(BitAnd(b1, 15), 2), BitAnd(Shr(b2, 6), 3))
      [] OTHER -> BitAnd(b2, 63)

\* the color indices that generate_png_from_colors hands to
\* convert_color_index_to_rgb, cell by cell; None where it keeps its white fill
UnpackGroups(packed) ==
    [i \in 0 .. (PngPixels - 1) |->
        LET base_byte == (i \div 4) * 3 IN
        IF i \div 4 < Groups /\ base_byte + 2 < PackedLen
        THEN Some(UnpackColor(i % 4, packed[base_byte], packed[base_byte + 1],
                              packed[base_byte + 2]))
        ELSE None]

\* pixel rows of one canvas: in bounds, colors below color_count, one row per
\* cell: the four cells of the first group and the last cell of the canvas
PixelCellArgs == {<<0, 0>>, <<1, 0>>, <<2, 0>>, <<3, 0>>, <<31, 31>>}
PixelColorArgs == {21, 42, 63}

PixelRowArgs == {[x |-> c[1], y |-> c[2], color |-> k] : c \in PixelCellArgs,
                                                        k \in PixelColorArgs}

PixelSliceArgs ==
    { ps \in SUBSET PixelRowArgs :
        \A r, q \in ps : (r.x = q.x /\ r.y = q.y) => r = q }

PackFlatten ==
    /\ IsSome(calc) /\ Unwrap(calc).stage = "pixels"
    /\ calc' = Some([Unwrap(calc) EXCEPT
                        !.stage = "colors",
                        !.colors = FlattenColors(Unwrap(calc).pixels, Width, Height)])
    /\ UnchDb /\ UnchKv
    /\ UNCHANGED <<lc_canvas, bcast, window, proc, now, cooldown_ms, tr, max_collaborators,
                   rate_config, kv_rate, rate_seen, rate_last, kv_nonce, nonce_log,
                   kv_pixels, ws_rooms, ws_count, ws_task>>

PackPack ==
    /\ IsSome(calc) /\ Unwrap(calc).stage = "colors"
    /\ calc' = Some([Unwrap(calc) EXCEPT
                        !.stage = "packed",
                        !.packed = PackGroups(Unwrap(calc).colors)])
    /\ UnchDb /\ UnchKv
    /\ UNCHANGED <<lc_canvas, bcast, window, proc, now, cooldown_ms, tr, max_collaborators,
                   rate_config, kv_rate, rate_seen, rate_last, kv_nonce, nonce_log,
                   kv_pixels, ws_rooms, ws_count, ws_task>>

PackUnpack ==
    /\ IsSome(calc) /\ Unwrap(calc).stage = "packed"
    /\ calc' = Some([Unwrap(calc) EXCEPT
                        !.stage = "unpacked",
                        !.unpacked = UnpackGroups(Unwrap(calc).packed)])
    /\ UnchDb /\ UnchKv
    /\ UNCHANGED <<lc_canvas, bcast, window, proc, now, cooldown_ms, tr, max_collaborators,
                   rate_config, kv_rate, rate_seen, rate_last, kv_nonce, nonce_log,
                   kv_pixels, ws_rooms, ws_count, ws_task>>

(***************************************************************************)
(* SpecPack: pack_pixels_to_colors followed by the unpacking, on every     *)
(* slice of pixel rows                                                     *)
(***************************************************************************)
PackInit ==
    /\ NoCanvas
    /\ lc_canvas = None
    /\ cooldown_ms = DefaultCooldownMs
    /\ window = LogCap
    /\ Silent /\ NoRate /\ NoNonce /\ DefaultLimits
    /\ calc \in {Some([stage |-> "pixels", pixels |-> ps, colors |-> << >>,
                       packed |-> << >>, unpacked |-> << >>]) : ps \in PixelSliceArgs}

PackNext ==
    \/ PackFlatten
    \/ PackPack
    \/ PackUnpack

SpecPack == PackInit /\ [][PackNext]_vars

\* the color the rows give to cell i, 10 where no row was supplied
SuppliedColor(pixels, i) ==
    IF \E r \in pixels : r.y * Width + r.x = i
    THEN (CHOOSE r \in pixels : r.y * Width + r.x = i).color
    ELSE DefaultColorIndex

\* C13: for every set of in-bounds pixels of a 32x32 canvas with colors in
\* [0,64), unpacking the 768 bytes of pack_pixels_to_colors yields at index
\* y*32+x the color of the pixel at (x,y) and 10 wherever no pixel was given.
C13_PackRoundTrip ==
    (IsSome(calc) /\ Unwrap(calc).stage = "unpacked") =>
        /\ DOMAIN Unwrap(calc).packed = 0 .. (PackedLen - 1)
        /\ \A i \in 0 .. (Width * Height - 1) :
              Unwrap(calc).unpacked[i] = Some(SuppliedColor(Unwrap(calc).pixels, i))

\* two rows of the first group and the last cell of the canvas, unpacked
C13_Witness ==
    /\ IsSome(calc) /\ Unwrap(calc).stage = "unpacked"
    /\ Cardinality(Unwrap(calc).pixels) = 3
    /\ Unwrap(calc).unpacked[1023] = Some(63)
    /\ Unwrap(calc).unpacked[1] = Some(42)
    /\ Unwrap(calc).unpacked[2] = Some(21)
    /\ Unwrap(calc).unpacked[0] = Some(DefaultColorIndex)
    /\ Unwrap(calc).packed[0] = 42

(***************************************************************************)
(* nft::prepare_metadata: the creators list.  top_pixel_owners is the      *)
(* result of find_top_pixel_owners(canvas_id, 4): at most four             *)
(* (owner_id, total_lamports) rows, distinct owners, totals descending.    *)
(* A creator's address is written as the id of the user whose wallet it is.*)
(***************************************************************************)
TopOwnersLimit == 4
OwnerBaseShare == 10
FullShare == 100

ShareUserArgs == {"u1", "u2", "u3", "u4", "u5"}
ShareAmountArgs == {1, 2, 11, 200}

TopOwnersArgs ==
    { t \in UNION {[1 .. n -> [id : ShareUserArgs, amount : ShareAmountArgs]] :
                        n \in 0 .. TopOwnersLimit} :
        /\ \A i, j \in 1 .. Len(t) : i # j => t[i].id # t[j].id
        /\ \A i \in 1 .. (Len(t) - 1) : t[i].amount >= t[i + 1].amount }

RECURSIVE SumAmounts(_)
SumAmounts(t) == IF t = << >> THEN 0 ELSE Head(t).amount + SumAmounts(Tail(t))

RECURSIVE SumShares(_)
SumShares(creators) ==
    IF creators = << >> THEN 0 ELSE Head(creators).share + SumShares(Tail(creators))

\* amount / total is a binary fraction, so the f64 quotient is exact
ExactQuotient(amount, total) == \E k \in 0 .. 8 : (amount * 2^k) % total = 0

\* ((amount as f64 / total as f64) * remaining as f64).round() as u8: the
\* nearest integer to remaining*amount/total.  f64::round takes a half away
\* from zero; when the real value is a half and the quotient is not exact in
\* f64, the product may fall on either side of the half.
RoundShares(amount, total, remaining) ==
    LET q == (remaining * amount) \div total
        r == (remaining * amount) % total
    IN
    IF 2 * r < total THEN {q}
    ELSE IF 2 * r > total THEN {q + 1}
    ELSE IF ExactQuotient(amount, total) THEN {q + 1}
    ELSE {q, q + 1}

\* the owner keeps the base share whatever the others sum to
EnsureSharesKeepsOwner(creators) == creators

\* "Ensure shares sum to 100": the first creator takes the difference
EnsureShares(creators) ==
    LET total_shares == AsU8(SumShares(creators)) IN
    IF total_shares # FullShare /\ creators # << >>
    THEN LET adjustment == FullShare - total_shares
             new_share == IF creators[1].share + adjustment >= 1
                          THEN creators[1].share + adjustment ELSE 1
         IN [creators EXCEPT ![1].share = new_share]
    ELSE creators

UnchShares ==
    /\ UnchDb /\ UnchKv
    /\ UNCHANGED <<lc_canvas, bcast, window, proc, now, cooldown_ms, tr, max_collaborators,
                   rate_config, kv_rate, rate_seen, rate_last, kv_nonce, nonce_log,
                   kv_pixels, ws_rooms, ws_count, ws_task>>

\* creators_list.push(owner) with 100 if nobody owns a pixel, 10 otherwise
SharesOwner ==
    /\ IsSome(calc) /\ Unwrap(calc).stage = "top"
    /\ calc' = Some([Unwrap(calc) EXCEPT
            !.stage = "split",
            !.creators = <<[address |-> Unwrap(calc).owner_id,
                            share |-> IF Unwrap(calc).top = << >>
                                      THEN FullShare ELSE OwnerBaseShare]>>])
    /\ UnchShares

\* one turn of "for (owner_id, amount) in &top_pixel_owners"
SharesSplit ==
    /\ IsSome(calc) /\ Unwrap(calc).stage = "split"
    /\ Unwrap(calc).i <= Len(Unwrap(calc).top)
    /\ LET c == Unwrap(calc)
           row == c.top[c.i]
           total_sol_invested == SumAmounts(c.top)
           remaining_share == FullShare - c.creators[1].share
       IN
       \E share \in (IF total_sol_invested > 0
                     THEN RoundShares(row.amount, total_sol_invested, remaining_share)
                     ELSE {0}) :
          calc' = Some([c EXCEPT
              !.i = c.i + 1,
              !.creators = IF row.id # c.owner_id /\ share > 0
                           THEN Append(c.creators, [address |-> row.id, share |-> share])
                           ELSE c.creators])
    /\ UnchShares

\* the adjustment after the loop; creators_output is the list as it stands
SharesEnsure ==
    /\ IsSome(calc) /\ Unwrap(calc).stage = "split"
    /\ Unwrap(calc).i > Len(Unwrap(calc).top)
    /\ calc' = Some([Unwrap(calc) EXCEPT
            !.stage = "creators",
            !.creators = EnsureShares(Unwrap(calc).creators)])
    /\ UnchShares

(***************************************************************************)
(* SpecShares: prepare_metadata on every list of top pixel owners          *)
(***************************************************************************)
SharesInit ==
    /\ NoCanvas
    /\ lc_canvas = None
    /\ cooldown_ms = DefaultCooldownMs
    /\ window = LogCap
    /\ Silent /\ NoRate /\ NoNonce /\ DefaultLimits
    /\ calc \in {Some([stage |-> "top", owner_id |-> Owner, top |-> t, i |-> 1,
                       creators |-> << >>]) : t \in TopOwnersArgs}

SharesNext ==
    \/ SharesOwner
    \/ SharesSplit
    \/ SharesEnsure

SpecShares == SharesInit /\ [][SharesNext]_vars

RepeatOps == {"cancelPublish", "cancelMintCountdown", "cancelBid", "delete"}

\* task 1 has answered one of the four requests and still holds its record
Answered == proc[1].pc = "done" /\ proc[1].op \in RepeatOps

RepeatFirst ==
    /\ Alone(1)
    /\ \/ LifeBegin(1) \/ LifeStep(1)
       \/ PlaceRequest(1) \/ PlaceSet(1) \/ PlaceDraftStep(1) \/ PlaceBidStep(1)
       \/ \E u \in Users, x \in XArgs : CancelBid(1, u, x)

RepeatBegin ==
    /\ Answered
    /\ CASE proc[1].op = "cancelPublish" -> CancelPublishBegin(2, proc[1].user)
         [] proc[1].op = "cancelMintCountdown" -> CancelMintCountdownBegin(2, proc[1].user)
         [] proc[1].op = "delete" -> DeleteBegin(2, proc[1].user)
         [] OTHER -> CancelBid(2, proc[1].user, proc[1].args.x)

RepeatStep ==
    /\ Answered
    /\ LifeStep(2)

RepeatInit ==
    /\ NoCanvas
    /\ lc_canvas = None
    /\ cooldown_ms = DefaultCooldownMs
    /\ window = 0
    /\ Quiet

RepeatNext ==
    \/ RepeatFirst
    \/ RepeatBegin
    \/ RepeatStep
    \/ ExpireCanvasLock
    \/ EvictCanvasCache

SpecRepeat == RepeatInit /\ [][RepeatNext]_vars

\* task 2 is serving, or has answered, the repetition of the request of task 1
Second ==
    /\ Answered
    /\ proc[2].op = proc[1].op
    /\ proc[2].user = proc[1].user
    /\ proc[2].args.x = proc[1].args.x

\* the canvas row, the pixels, the collaborators and the two locks
C15_Durable == <<db_canvas, db_collab, db_pixels, kv_canvas_lock, kv_pixel_lock>>

\* no step of the second invocation writes
C15_SecondWritesNothing ==
    [][(Second' /\ proc'[1] = proc[1] /\ proc'[2] # proc[2]) =>
            C15_Durable' = C15_Durable]_vars

\* what the second invocation answers
C15_SecondAnswer ==
    (Second /\ proc[2].pc = "done") =>
        /\ proc[1].res # "Ok" => proc[2].res = proc[1].res
        /\ (proc[1].res = "Ok" /\ proc[1].op = "cancelPublish") =>
                proc[2].res = "InvalidCanvasStateTransition"
        /\ (proc[1].res = "Ok" /\ proc[1].op = "cancelMintCountdown") =>
                proc[2].res = "InvalidParams: Canvas not in mint pending state"
        /\ (proc[1].res = "Ok" /\ proc[1].op = "delete") =>
                proc[2].res = "CanvasNotFound"

\* C15: cancel_publish, cancel_mint_countdown, cancel_bid and delete_canvas
\* sent a second time by the same caller with the same arguments, right after
\* the first: no step of the second invocation changes the canvas row, the
\* pixels, the collaborators, the canvas lock or a pixel lock; it repeats the
\* error of a failed first invocation and, after a successful one, fails with
\* InvalidCanvasStateTransition, InvalidParams or CanvasNotFound.
C15_RepeatIsNoop == C15_SecondWritesNothing /\ []C15_SecondAnswer

\* a cancel_publish that moved Publishing back to Draft, sent again and refused
C15_Witness ==
    /\ Second
    /\ proc[1].op = "cancelPublish" /\ proc[1].res = "Ok"
    /\ proc[2].pc = "done" /\ proc[2].res = "InvalidCanvasStateTransition"
    /\ IsSome(db_canvas) /\ Unwrap(db_canvas).state = "Draft"
    /\ kv_canvas_lock = None

(***************************************************************************)
(* SpecOutsider: the pixel requests of every user, one at a time, on a     *)
(* canvas that only its owner has joined                                   *)
(***************************************************************************)
\* a canvas in state st as create_canvas and the lifecycle leave it: the
\* owner is the only collaborator
OwnCanvas(st) ==
    /\ db_canvas = Some(RowOfState(st))
    /\ db_collab = {Owner}
    /\ db_pixels \in {InitializeCanvasPixels(color) : color \in InitialColorArgs}
    /\ created = TRUE

OutsiderInit ==
    /\ \E st \in {"Draft", "Published"} : OwnCanvas(st)
    /\ lc_canvas = None
    /\ cooldown_ms = DefaultCooldownMs
    /\ window = LogCap
    /\ Quiet

OutsiderNext ==
    \E p \in Procs :
        /\ Alone(p)
        /\ \/ PlaceRequest(p) \/ PlaceSet(p) \/ PlaceDraftStep(p) \/ PlaceBidStep(p)
           \/ BidRequests(p)
           \/ Return(p)

SpecOutsider == OutsiderInit /\ [][OutsiderNext]_vars

PixelOps == {"place", "confirmBid", "cancelBid", "paint"}

\* C16: place, confirm, cancel and paint called by a user who is not a
\* collaborator of the canvas fail with NotCollaborator.
C16_OutsiderRejected ==
    \A p \in Procs :
        (proc[p].pc = "done" /\ proc[p].op \in PixelOps /\ proc[p].user \notin db_collab)
            => proc[p].res = "NotCollaborator"

LifecycleOps == {"publish", "confirmPublish", "cancelPublish", "delete", "announceMint",
                 "cancelMintCountdown", "mint", "confirmMint", "cancelMint"}

\* task p serves a lifecycle request of a user who does not own the stored canvas
NotOwnerCall(p) ==
    /\ proc[p].op \in LifecycleOps
    /\ IsSome(db_canvas)
    /\ proc[p].user # Unwrap(db_canvas).owner_id

\* the answer to such a request
C17_NotOwnerAnswer ==
    \A p \in Procs : (NotOwnerCall(p) /\ proc[p].pc = "done") => proc[p].res = "NotCanvasOwner"

\* no step of such a request writes the canvas row or the canvas lock
C17_NotOwnerWritesNothing ==
    [][\A p \in Procs :
          (NotOwnerCall(p)' /\ proc'[p] # proc[p]) =>
              /\ db_canvas' = db_canvas
              /\ kv_canvas_lock' = kv_canvas_lock]_vars

\* C17: publish, confirmPublish, cancelPublish, delete, announceMint,
\* cancelMintCountdown, mint, confirmMint and cancelMint called by a user other
\* than the owner of the canvas fail with NotCanvasOwner (the NotOwner error,
\* code -32034) before any transition, and leave the canvas row (state,
\* canvas_pda, mint_address) and the canvas lock as they were.
C17_OnlyOwner == C17_NotOwnerWritesNothing /\ []C17_NotOwnerAnswer

\* a publish refused to the other user while the canvas stays Draft and unlocked
C17_Witness ==
    \E p \in Procs :
        /\ NotOwnerCall(p)
        /\ proc[p].op = "publish" /\ proc[p].pc = "done" /\ proc[p].res = "NotCanvasOwner"
        /\ Unwrap(db_canvas).state = "Draft"
        /\ kv_canvas_lock = None

(***************************************************************************)
(* SpecFreeze: place requests and lifecycle requests, one at a time, on a  *)
(* canvas that every user has joined                                       *)
(***************************************************************************)
FreezeInit ==
    /\ \E st \in {"Draft", "Published"} : JoinedCanvas(st)
    /\ lc_canvas = None
    /\ cooldown_ms = DefaultCooldownMs
    /\ window = 0
    /\ Quiet

FreezeNext ==
    \/ \E p \in Procs :
          /\ Alone(p)
          /\ \/ PlaceRequest(p) \/ PlaceSet(p) \/ PlaceDraftStep(p) \/ PlaceBidStep(p)
             \/ LifeBegin(p) \/ LifeStep(p)
    \/ ExpireCanvasLock
    \/ EvictCanvasCache

SpecFreeze == FreezeInit /\ [][FreezeNext]_vars

\* C18: a place call is accepted only while the stored state of the canvas is
\* Draft or Published; in MintPending, Publishing, Minting and Minted it is
\* rejected, also when the canvas is read from the local cache.
C18_PlaceFrozen ==
    \A p \in Procs :
        (proc[p].op = "place" /\ proc[p].pc = "done" /\ proc[p].res = "Ok") =>
            /\ IsSome(db_canvas)
            /\ Unwrap(db_canvas).state \in {"Draft", "Published"}

(***************************************************************************)
(* SpecJoin: create, join and get of two tasks, interleaved step by step,  *)
(* for each configured MAX_COLLABORATORS                                   *)
(***************************************************************************)
MaxCollaboratorsArgs == {1, DefaultMaxCollaborators}

JoinInit ==
    /\ NoCanvas
    /\ lc_canvas = None
    /\ cooldown_ms = DefaultCooldownMs
    /\ window = LogCap
    /\ Silent /\ NoRate /\ NoNonce
    /\ calc = None
    /\ rate_config = [max_requests_per_window |-> RateLimitCanvas,
                      window_duration_secs |-> WindowDurationSecs]
    /\ max_collaborators \in MaxCollaboratorsArgs

JoinNext ==
    \E p \in Procs :
        \/ \E u \in Users : CreateCanvas(p, u)
        \/ CollabBegin(p)
        \/ CollabStep(p)
        \/ Return(p)

SpecJoin == JoinInit /\ [][JoinNext]_vars

\* C19: after any creates and joins the canvas has at most max_collaborators
\* collaborators.
C19_CollaboratorsBounded == Cardinality(db_collab) <= max_collaborators

PixelUpdates == {"Pixel", "PixelLocked", "PixelUnlocked"}

\* C20: a pixel operation that has succeeded has sent its update to the room:
\* the last broadcast is a Pixel, PixelLocked or PixelUnlocked update.
C20_PixelBroadcast ==
    \A p \in Procs :
        (proc[p].op \in PixelOps /\ proc[p].pc = "done" /\ proc[p].res = "Ok") =>
            LastBroadcast[1] \in PixelUpdates

(***************************************************************************)
(* SpecPixel: place, confirm, cancel, paint and get requests of the users  *)
(* of a Draft or Published canvas, one at a time, with the pixel locks and *)
(* the pixel snapshot running out between them                             *)
(***************************************************************************)
PixelInit ==
    /\ \E st \in {"Draft", "Published"} : JoinedCanvas(st)
    /\ lc_canvas = None
    /\ cooldown_ms = DefaultCooldownMs
    /\ window = LogCap
    /\ Quiet

PixelNext ==
    \/ \E p \in Procs :
          /\ Alone(p)
          /\ \/ PlaceRequest(p) \/ PlaceSet(p) \/ PlaceDraftStep(p) \/ PlaceBidStep(p)
             \/ BidRequests(p)
             \/ \E u \in Users : GetCanvasBegin(p, u)
             \/ GetCanvasSet(p) \/ GetCanvasPixels(p) \/ GetCanvasStore(p)
             \/ Return(p)
    \/ \E k \in LockKeys : ExpirePixelLock(k)
    \/ ExpirePixelSnapshot

SpecPixel == PixelInit /\ [][PixelNext]_vars

\* owner_id and price_lamports of a pixels entry; no row reads as the new row
OwnerAndPrice(pixel) ==
    IF IsSome(pixel) THEN <<Unwrap(pixel).owner_id, Unwrap(pixel).price_lamports>>
    ELSE <<None, 0>>

\* the step is a confirm_bid of task p on pixel x that verified its transaction
VerifiedConfirmStep(p, x) ==
    /\ IsIdle(p)
    /\ proc'[p].op = "confirmBid"
    /\ proc'[p].res = "Ok"
    /\ proc'[p].args.x = x
    /\ proc'[p].args.outcome = "true"

\* C23: a step changes owner_id or price_lamports of a pixel only if it is a
\* confirm_bid on that pixel whose verification returned true; place,
\* cancel_bid, paint and failed confirm_bid steps leave both as they were.
C23_OwnerPriceFrame ==
    [][\A x \in XArgs :
          OwnerAndPrice(db_pixels'[x]) # OwnerAndPrice(db_pixels[x]) =>
              \E p \in Procs : VerifiedConfirmStep(p, x)]_vars

\* a draft place has succeeded and rewritten the color of a pixel as created:
\* its owner_id is still null and its price still 0
C23_Witness ==
    \E p \in Procs :
        /\ proc[p].op = "place" /\ proc[p].pc = "done" /\ proc[p].res = "Ok"
        /\ Unwrap(db_canvas).state = "Draft"
        /\ IsSome(db_pixels[proc[p].args.x])
        /\ Unwrap(db_pixels[proc[p].args.x]).color = proc[p].args.color
        /\ OwnerAndPrice(db_pixels[proc[p].args.x]) = <<None, 0>>

\* C24: a confirm_bid by the holder of the live pixel lock, with a bid of at
\* least the minimum and above the price, whose transaction verification
\* returns false fails with TransactionFailed and leaves the pixel row and
\* the pixel lock as they were (so the holder can confirm again).
C24_FailedVerification ==
    \A p \in Procs :
        (/\ proc[p].op = "confirmBid" /\ proc[p].pc = "done"
         /\ proc[p].pre = Some(UuidToString(proc[p].user))
         /\ proc[p].args.x < Width
         /\ proc[p].args.bid >= MinBidLamports
         /\ proc[p].args.bid > OwnerAndPrice(db_pixels[proc[p].args.x])[2]
         /\ proc[p].args.outcome = "false") =>
            /\ proc[p].res = "TransactionFailed"
            /\ kv_pixel_lock[AsU8(proc[p].args.x)] = proc[p].pre

\* the least bid the claim lets pass: max(min_bid_lamports, price + 1)
LeastBid(pixel) ==
    IF OwnerAndPrice(pixel)[2] + 1 > MinBidLamports
    THEN OwnerAndPrice(pixel)[2] + 1 ELSE MinBidLamports

\* a place call on the Published canvas that has gone through bid validation
BidValidated(p) ==
    /\ proc[p].op = "place" /\ proc[p].pc = "done"
    /\ Unwrap(db_canvas).state = "Published"
    /\ proc[p].res \in {"Ok", "PixelLocked", "BidTooLow"}

\* C25: place_bid passes validation exactly when
\* bid >= max(min_bid_lamports, price + 1); otherwise it fails with BidTooLow
\* whose min_lamports is max(min_bid_lamports, price + 1).
C25_BidValidation ==
    \A p \in Procs :
        BidValidated(p) =>
            LET need == LeastBid(db_pixels[proc[p].args.x]) IN
            /\ proc[p].res # "BidTooLow" <=> proc[p].args.bid >= need
            /\ proc[p].res = "BidTooLow" => proc[p].out.min_lamports = need

\* the step is a paint_pixel call of task p
PaintStep(p) == IsIdle(p) /\ proc'[p].op = "paint"

\* user u owns the pixel of the row
OwnsPixel(u, pixel) == IsSome(pixel) /\ Unwrap(pixel).owner_id = Some(u)

MutationDone(p) ==
    /\ proc[p].pc = "done" /\ proc[p].res = "Ok"
    /\ \/ proc[p].op = "place" /\ Unwrap(db_canvas).state = "Draft"
       \/ proc[p].op \in {"confirmBid", "paint"}

RaceInit ==
    /\ JoinedCanvas("Draft")
    /\ lc_canvas = None
    /\ cooldown_ms = DefaultCooldownMs
    /\ window = 0
    /\ Quiet

RaceNext ==
    \/ \E p \in Procs :
          \/ PlaceRequest(p) \/ PlaceSet(p) \/ PlaceDraftStep(p)
          \/ \E u \in Users : GetCanvasBegin(p, u)
          \/ GetCanvasSet(p) \/ GetCanvasPixels(p) \/ GetCanvasStore(p)
          \/ Return(p)
    \/ ExpirePixelSnapshot

SpecRace == RaceInit /\ [][RaceNext]_vars

\* C28: a stale pixel snapshot does not outlive the next read: when a
\* get_canvas that found a snapshot has finished, nothing else is in flight
\* and that snapshot is still stored, it is the snapshot of the pixel rows.
C28_StaleSnapshotRepaired ==
    \A p \in Procs :
        (/\ proc[p].op = "get" /\ proc[p].pc = "done" /\ proc[p].res = "Ok"
         /\ Alone(p)
         /\ IsSome(proc[p].pre)
         /\ kv_pixels = proc[p].pre) =>
            kv_pixels = Some(ToJsonPixelData(CachedPixelData(db_pixels)))

\* the step is the update_canvas_state of a cancel_mint_countdown that succeeds
CountdownCancelled(p) == proc[p].pc = "xc_trans" /\ proc'[p].pc = "xc_bcast"

\* C29: a cancel_mint_countdown that succeeds takes the canvas from
\* MintPending to Published, also when nft.mint runs beside it; it never
\* moves a canvas out of Minting or any other state.
C29_CancelsOnlyMintPending ==
    [][\A p \in Procs :
          CountdownCancelled(p) =>
              /\ Unwrap(db_canvas).state = "MintPending"
              /\ Unwrap(db_canvas').state = "Published"]_vars

\* the step is the update_canvas_state of a cancel_mint that succeeds
MintCancelled(p) == proc[p].pc = "xm_trans" /\ proc'[p].pc = "xm_delete"

\* C30: a cancel_mint whose update_canvas_state succeeds finds the canvas in
\* Minting and leaves it Published; in MintPending and in every other state
\* the call fails before it writes.
C30_CancelsOnlyMinting ==
    [][\A p \in Procs :
          MintCancelled(p) =>
              /\ Unwrap(db_canvas).state = "Minting"
              /\ Unwrap(db_canvas').state = "Published"]_vars

\* C31: every step that changes the stored state of the canvas takes it along
\* an edge of the transition graph from the state stored just before, and a
\* new row starts in Draft: the committed states form a path from Draft, so
\* of two conflicting transitions from one source state only the first
\* commits from it.
C31_CommittedPath ==
    [][/\ (~IsSome(db_canvas) /\ IsSome(db_canvas')) => Unwrap(db_canvas').state = "Draft"
       /\ (IsSome(db_canvas) /\ IsSome(db_canvas')
           /\ Unwrap(db_canvas').state # Unwrap(db_canvas).state) =>
              IsValidTransition(Unwrap(db_canvas).state, Unwrap(db_canvas').state)]_vars

\* confirmPublish and cancelPublish both passed their checks on the
\* Publishing canvas; confirmPublish committed and cancelPublish was refused
C31_Witness ==
    \E p, q \in Procs :
        /\ proc[p].op = "confirmPublish" /\ proc[p].pc = "done" /\ proc[p].res = "Ok"
        /\ proc[q].op = "cancelPublish" /\ proc[q].pc = "done"
        /\ proc[q].res = "InvalidCanvasStateTransition"
        /\ IsSome(db_canvas) /\ Unwrap(db_canvas).state = "Published"


(***************************************************************************)
(* WebSocket rooms: ws/router.rs, ws/room.rs, ws/handler.rs                *)
(***************************************************************************)
\* the counts main.rs hands to RoomManager::initialize in the runs of the rooms
WsMaxArgs == {1, 2}

\* Room::new gets an object no connection of the run has been handed
FreshRoom ==
    CHOOSE r \in RoomIds :
        /\ \A h \in WsTasks : ws_task[h].room # Some(r)
        /\ \A q \in RoomIds : (\A h \in WsTasks : ws_task[h].room # Some(q)) => r <= q

UnchWs ==
    /\ UnchDb /\ UnchKv
    /\ UNCHANGED <<kv_pixels, lc_canvas, bcast, window, proc, now, cooldown_ms, tr,
                   max_collaborators, rate_config, kv_rate, rate_seen, rate_last,
                   kv_nonce, nonce_log, calc>>

\* handle_socket starts; get_or_create_room looks the room up under the read lock
WsGetRoomRead(h) ==
    /\ ws_task[h].pc = "idle"
    /\ ws_task' = [ws_task EXCEPT ![h].pc = IF IsSome(ws_rooms) THEN "sub_load" ELSE "create",
                                  ![h].room = ws_rooms]
    /\ UNCHANGED <<ws_rooms, ws_count>>
    /\ UnchWs

\* get_or_create_room under the write lock: entry(canvas_id).or_insert_with(Room::new)
WsGetRoomWrite(h) ==
    /\ ws_task[h].pc = "create"
    /\ IF IsSome(ws_rooms)
       THEN /\ ws_task' = [ws_task EXCEPT ![h].pc = "sub_load", ![h].room = ws_rooms]
            /\ UNCHANGED <<ws_rooms, ws_count>>
       ELSE /\ ws_rooms' = Some(FreshRoom)
            /\ ws_count' = [ws_count EXCEPT ![FreshRoom] = 0]
            /\ ws_task' = [ws_task EXCEPT ![h].pc = "sub_load", ![h].room = Some(FreshRoom)]
    /\ UnchWs

\* Room::subscribe: the load of connection_count and the test against max_connections
WsSubscribeLoad(h) ==
    /\ ws_task[h].pc = "sub_load"
    /\ LET count == ws_count[Unwrap(ws_task[h].room)] IN
       ws_task' = [ws_task EXCEPT ![h].seen = count,
                                  ![h].pc = IF count >= max_collaborators
                                            THEN "refused" ELSE "sub_cas"]
    /\ UNCHANGED <<ws_rooms, ws_count>>
    /\ UnchWs

\* Room::subscribe with a plain store in place of the compare_exchange
WsSubscribeCasStore(h) ==
    /\ ws_task[h].pc = "sub_cas"
    /\ LET r == Unwrap(ws_task[h].room) IN
       /\ ws_count' = [ws_count EXCEPT ![r] = ws_task[h].seen + 1]
       /\ ws_task' = [ws_task EXCEPT ![h].pc = "connected", ![h].sub = TRUE]
    /\ UNCHANGED ws_rooms
    /\ UnchWs

\* Room::subscribe: compare_exchange(count, count + 1); on success the receiver is
\* returned and handle_socket sends UserJoined on the Room, on failure the loop repeats
WsSubscribeCas(h) ==
    /\ ws_task[h].pc = "sub_cas"
    /\ LET r == Unwrap(ws_task[h].room) IN
       IF ws_count[r] = ws_task[h].seen
       THEN /\ ws_count' = [ws_count EXCEPT ![r] = ws_task[h].seen + 1]
            /\ ws_task' = [ws_task EXCEPT ![h].pc = "connected", ![h].sub = TRUE]
       ELSE /\ ws_task' = [ws_task EXCEPT ![h].pc = "sub_load"]
            /\ UNCHANGED ws_count
    /\ UNCHANGED ws_rooms
    /\ UnchWs

\* the ways handle_connection breaks out of its loop
ExitCauses == {"close", "end_of_stream", "socket_error", "send_failed"}

\* handle_connection returns
WsConnectionEnds(h, cause) ==
    /\ ws_task[h].pc = "connected"
    /\ ws_task' = [ws_task EXCEPT ![h].pc = "unsubscribe", ![h].cause = cause]
    /\ UNCHANGED <<ws_rooms, ws_count>>
    /\ UnchWs

\* the task is dropped at an await of handle_connection: the rest of handle_socket
\* does not run, the Arc of the Room is dropped
WsAbort(h) ==
    /\ ws_task[h].pc = "connected"
    /\ ws_task' = [ws_task EXCEPT ![h].pc = "aborted", ![h].cause = "abort"]
    /\ UNCHANGED <<ws_rooms, ws_count>>
    /\ UnchWs

\* Room::unsubscribe: fetch_sub(1), then handle_socket sends UserLeft on the Room
WsUnsubscribe(h) ==
    /\ ws_task[h].pc = "unsubscribe"
    /\ LET r == Unwrap(ws_task[h].room) IN
       ws_count' = [ws_count EXCEPT ![r] = ws_count[r] - 1]
    /\ ws_task' = [ws_task EXCEPT ![h].pc = "remove", ![h].sub = FALSE]
    /\ UNCHANGED ws_rooms
    /\ UnchWs

\* RoomManager::remove_room_if_empty under the write lock, on the Room the map holds
WsRemoveRoomIfEmpty(h) ==
    /\ ws_task[h].pc = "remove"
    /\ ws_rooms' = IF IsSome(ws_rooms) /\ ws_count[Unwrap(ws_rooms)] = 0 THEN None ELSE ws_rooms
    /\ ws_task' = [ws_task EXCEPT ![h].pc = "closed"]
    /\ UNCHANGED ws_count
    /\ UnchWs

(***************************************************************************)
(* SpecWs: three connections to the room of one canvas                     *)
(***************************************************************************)
WsInit ==
    /\ NoCanvas
    /\ lc_canvas = None
    /\ cooldown_ms = DefaultCooldownMs
    /\ window = LogCap
    /\ Silent /\ NoRate /\ NoNonce
    /\ calc = None
    /\ rate_config = [max_requests_per_window |-> RateLimitCanvas,
                      window_duration_secs |-> WindowDurationSecs]
    /\ max_collaborators \in WsMaxArgs

WsNext ==
    \E h \in WsTasks :
        \/ WsGetRoomRead(h)
        \/ WsGetRoomWrite(h)
        \/ WsSubscribeLoad(h)
        \/ WsSubscribeCas(h)
        \/ \E cause \in ExitCauses : WsConnectionEnds(h, cause)
        \/ WsAbort(h)
        \/ WsUnsubscribe(h)
        \/ WsRemoveRoomIfEmpty(h)

SpecWs == WsInit /\ [][WsNext]_vars

\* the connections that hold a slot of Room r
Subscribers(r) == {h \in WsTasks : ws_task[h].sub /\ ws_task[h].room = Some(r)}

\* C32: under every interleaving of subscribe and unsubscribe, the connection_count of a
\* Room is the number of subscriptions granted and not released and lies between 0 and
\* max_connections; subscribe returns None exactly when the count it read is already
\* max_connections, and that return changes no count.
C32_CountIsSubscribers ==
    /\ [](/\ \A r \in RoomIds : /\ ws_count[r] = Cardinality(Subscribers(r))
                                /\ ws_count[r] >= 0
                                /\ ws_count[r] <= max_collaborators
          /\ \A h \in WsTasks : /\ ws_task[h].pc = "refused" => ws_task[h].seen = max_collaborators
                                /\ ws_task[h].pc = "sub_cas" => ws_task[h].seen < max_collaborators)
    /\ [][\A h \in WsTasks :
             (ws_task[h].pc # "refused" /\ ws_task'[h].pc = "refused") =>
                 /\ ws_count' = ws_count
                 /\ ws_rooms' = ws_rooms
                 /\ ws_task'[h].sub = ws_task[h].sub]_vars

\* a connection was refused at a full Room, after another one lost a compare_exchange
C32_Witness ==
    \E h, g \in WsTasks :
        /\ ws_task[h].pc = "refused"
        /\ ws_task[h].seen = max_collaborators
        /\ ws_task[g].pc = "sub_load"
        /\ ws_task[g].seen < ws_count[Unwrap(ws_task[g].room)]
        /\ ws_task[g].room = ws_task[h].room


\* C33: every connection that is subscribed and receiving holds the Room the RoomManager
\* maps the canvas to (ws_rooms), so a RoomManager::broadcast issued now, which sends on
\* the mapped Room only, is sent on its channel.
C33_SubscribedToMappedRoom ==
    \A h \in WsTasks :
        (ws_task[h].pc = "connected" /\ ws_task[h].sub) => ws_rooms = ws_task[h].room


\* SpecWsLive: the runtime keeps polling a task whose handle_connection has returned,
\* so its unsubscribe and its remove_room_if_empty are taken
SpecWsLive ==
    /\ WsInit
    /\ [][WsNext]_vars
    /\ \A h \in WsTasks : WF_vars(WsUnsubscribe(h)) /\ WF_vars(WsRemoveRoomIfEmpty(h))

\* C34: a task that obtained a subscription and then left handle_connection, by a break
\* of its loop or by being dropped, eventually has released its slot.
C34_EventuallyReleased ==
    \A h \in WsTasks :
        (ws_task[h].sub /\ ws_task[h].cause # "-") ~> (~ws_task[h].sub)


(***************************************************************************)
(* verify_program_transaction: the polling loop and the program-id check   *)
(***************************************************************************)
\* for _ in 0..30
PollAttempts == 30

\* confirmation_status values that end the polling
ConfirmationLevels == {"Processed", "Confirmed", "Finalized"}

\* what one get_signature_statuses call can report: an RPC error, no status for the
\* signature, a status with err set, a status without err at one of the levels
PollOutcomes == {"rpc_error", "no_status", "status_err"} \cup ConfirmationLevels

\* what get_transaction_with_config and the account keys can give
TransactionOutcomes == {"fetch_error", "unexpected_encoding", "our_program", "other_program"}

VerifyStart == [stage |-> "poll", polls |-> 0, last_status_err |-> FALSE,
                last_outcome |-> "-", result |-> "-", from |-> "-"]

\* one iteration of the loop; when the loop is left by break or after the last
\* iteration, the test of last_status_err that follows it
VerifyPoll(outcome) ==
    /\ IsSome(calc) /\ Unwrap(calc).stage = "poll"
    /\ LET c == Unwrap(calc)
           err == c.last_status_err \/ outcome = "rpc_error"
           polled == [c EXCEPT !.polls = c.polls + 1, !.last_outcome = outcome,
                               !.last_status_err = err]
           leaves == outcome \in ConfirmationLevels \/ polled.polls = PollAttempts
       IN  calc' = Some(IF outcome = "status_err"
                        THEN [polled EXCEPT !.stage = "returned", !.result = "false",
                                            !.from = "poll"]
                        ELSE IF ~leaves THEN polled
                        ELSE IF err
                        THEN [polled EXCEPT !.stage = "returned", !.result = "SolanaRpc",
                                            !.from = "poll"]
                        ELSE [polled EXCEPT !.stage = "transaction"])
    /\ UnchShares

\* get_transaction_with_config, the decoding of the message, the account key test
VerifyTransaction(outcome) ==
    /\ IsSome(calc) /\ Unwrap(calc).stage = "transaction"
    /\ calc' = Some([Unwrap(calc) EXCEPT
                        !.stage = "returned",
                        !.from = "transaction",
                        !.result = CASE outcome = "fetch_error" -> "SolanaRpc"
                                     [] outcome = "unexpected_encoding" -> "SolanaRpc"
                                     [] outcome = "other_program" -> "InvalidParams"
                                     [] outcome = "our_program" -> "true"])
    /\ UnchShares

VerifyInit ==
    /\ NoCanvas
    /\ lc_canvas = None
    /\ cooldown_ms = DefaultCooldownMs
    /\ window = LogCap
    /\ Silent /\ NoRate /\ NoNonce /\ DefaultLimits
    /\ calc = Some(VerifyStart)

VerifyNext ==
    \/ \E outcome \in PollOutcomes : VerifyPoll(outcome)
    \/ \E outcome \in TransactionOutcomes : VerifyTransaction(outcome)

SpecVerify == VerifyInit /\ [][VerifyNext]_vars

\* C35: over every sequence of at most 30 poll outcomes, the function returns false at
\* the first status with an on-chain error; the poll that reports Processed, Confirmed or
\* Finalized takes it to the program-id check whatever earlier polls returned; SolanaRpc
\* comes out of the polling only when no poll confirmed and the latest poll was an RPC error.
C35_PollingOutcome ==
    LET c == Unwrap(calc) IN
    /\ c.last_outcome = "status_err" => (c.stage = "returned" /\ c.result = "false")
    /\ (c.from = "poll" /\ c.result = "false") => c.last_outcome = "status_err"
    /\ (c.last_outcome \in ConfirmationLevels /\ c.from # "transaction") => c.stage = "transaction"
    /\ (c.from = "poll" /\ c.result = "SolanaRpc") =>
           (c.last_outcome = "rpc_error" /\ c.polls = PollAttempts)


\* the time of the user's latest successful draft place, as its join wrote it
LastDraftPaint(u) == FromJsonU64(Unwrap(kv_cooldown[u]).text).v

\* C37: successive draft places of one user that succeed are at least cooldown_ms apart,
\* under every interleaving of that user's calls: a draft place completes only when the
\* user's previous successful one lies cooldown_ms or more in the past.
C37_OneDraftPerCooldown ==
    [][\A p \in Procs :
          (/\ proc[p].pc = "pd_join"
           /\ proc'[p].pc = "done" /\ proc'[p].res = "Ok"
           /\ IsSome(kv_cooldown[proc[p].user])) =>
              now - LastDraftPaint(proc[p].user) >= cooldown_ms]_vars


\* C38: a failed initialize_canvas_publish leaves the canvas lock and the canvas state as
\* they were before the call.  A call that fails after its SET NX succeeded found the lock
\* free, so no lock is stored afterwards; a call that fails at the blockhash fetch found
\* the canvas in Draft, so the row is in Draft afterwards.
C38_FailedPublishRestores ==
    \A p \in Procs :
        (proc[p].op = "publish" /\ proc[p].pc = "done" /\ Alone(p)) =>
            /\ proc[p].res \in {"InvalidCanvasStateTransition", "SolanaRpc"} =>
                   kv_canvas_lock = None
            /\ proc[p].res = "SolanaRpc" => StoredState = "Draft"


(***************************************************************************)
(* SpecPublish: initialize_canvas_publish and place requests of two tasks, *)
(* interleaved step by step, on a Draft canvas that every user has joined  *)
(***************************************************************************)
PublishInit ==
    /\ JoinedCanvas("Draft")
    /\ lc_canvas = None
    /\ cooldown_ms = DefaultCooldownMs
    /\ window = 0
    /\ Quiet

PublishNext ==
    \/ \E p \in Procs :
          \/ PlaceRequest(p) \/ PlaceSet(p) \/ PlaceDraftStep(p)
          \/ \E u \in Users : PublishBegin(p, u)
          \/ PublishLock(p)
          \/ \E rpc_ok \in BOOLEAN : PublishTransition(p, rpc_ok)
          \/ Return(p)
    \/ ExpireCanvasLock
    \/ EvictCanvasCache

SpecPublish == PublishInit /\ [][PublishNext]_vars

\* an initialize_canvas_publish holds the lock and has read the pixels it packs
PixelsPacked == \E p \in Procs : proc[p].op = "publish" /\ proc[p].pc = "pub_trans"

\* C40: from the read of the pixels that initialize_canvas_publish packs, and for as long
\* as the stored state is Publishing, no step changes a pixel row.
C40_PublishingFreezesPixels ==
    [][(PixelsPacked \/ StoredState = "Publishing") => db_pixels' = db_pixels]_vars

====
